---- MODULE Spec2Model ----
(***************************************************************************)
(* Model of react-form-builder's API service (ApiServiceProvider.tsx):     *)
(* the request pipeline (endpoint lookup, payload validation, mock, cache, *)
(* network dispatch with retry), the module-level cache and the token      *)
(* holder of each provider instance; and of its FormBuilder component:     *)
(* the form rendered from a YAML text, the values of its controls, the     *)
(* schema validator built from the validation blocks and the submit.       *)
(***************************************************************************)
EXTENDS Integers, Sequences, FiniteSets, TLC

VARIABLES config, tokenRef, apiCache, calls, nCalls, firstOk,
          yamlConfig, rendered, formValues, formErrors, submitted,
          filePreviews, showPassword

\* the state of the API service
apiVars == <<config, tokenRef, apiCache, calls, nCalls, firstOk>>

\* the state of a FormBuilder: the YAML text it was given, what its render
\* produced, the values and the errors of the form state container, what
\* the last submit attempt did, the previews of the file controls and the
\* visibility state of the password widgets
formVars == <<yamlConfig, rendered, formValues, formErrors, submitted,
              filePreviews, showPassword>>

vars == <<config, tokenRef, apiCache, calls, nCalls, firstOk,
          yamlConfig, rendered, formValues, formErrors, submitted,
          filePreviews, showPassword>>

(***************************************************************************)
(* Bounds of the model.                                                    *)
(***************************************************************************)
\* number of get/post/put/delete calls issued in one behaviour
MaxCalls == 2
\* retry count of the retrying endpoint of the catalog
MaxRetry == 1

(***************************************************************************)
(* JavaScript values.  Every value carries its type tag; an object keeps   *)
(* its own keys in insertion order.                                        *)
(***************************************************************************)
Absent == [t |-> "absent"]
Undefined == [t |-> "undefined"]
Null == [t |-> "null"]
Num(n) == [t |-> "number", n |-> n]
Str(s) == [t |-> "string", s |-> s]
Bool(b) == [t |-> "boolean", b |-> b]
Obj(keys, get) == [t |-> "object", keys |-> keys, get |-> get]
EmptyObj == Obj(<<>>, <<>>)

\* typeof v
TypeOf(v) == IF v.t = "null" THEN "object" ELSE v.t

\* ToBoolean(v): the test made by `if (v)`, `v || w`, `v ? a : b`
Truthy(v) ==
  CASE v.t = "absent" -> FALSE
    [] v.t = "undefined" -> FALSE
    [] v.t = "null" -> FALSE
    [] v.t = "number" -> v.n # 0
    [] v.t = "string" -> v.s # ""
    [] v.t = "boolean" -> v.b
    [] v.t = "object" -> TRUE
    [] v.t \in {"array", "file", "function"} -> TRUE

\* v[key] of a value that is not null or undefined
Prop(v, key) ==
  IF v.t = "object" /\ \E i \in 1..Len(v.keys) : v.keys[i] = key
  THEN v.get[CHOOSE i \in 1..Len(v.keys) : v.keys[i] = key]
  ELSE Undefined

\* v?.key
OptProp(v, key) ==
  IF v.t \in {"null", "undefined", "absent"} THEN Undefined ELSE Prop(v, key)

\* a || b
OrElse(a, b) == IF Truthy(a) THEN a ELSE b

\* JSON.stringify of a primitive member value (a string; never called on undefined)
StringifyPrim(v) ==
  CASE v.t = "null" -> "null"
    [] v.t = "number" -> ToString(v.n)
    [] v.t = "string" -> "\"" \o v.s \o "\""
    [] v.t = "boolean" -> IF v.b THEN "true" ELSE "false"
    [] v.t = "object" -> "{}"

RECURSIVE StringifyMembers(_, _, _)
\* the members of an object from key i on; members whose value is undefined are skipped
StringifyMembers(v, i, first) ==
  IF i > Len(v.keys) THEN ""
  ELSE IF v.get[i].t = "undefined" THEN StringifyMembers(v, i + 1, first)
  ELSE (IF first THEN "" ELSE ",")
         \o "\"" \o v.keys[i] \o "\":" \o StringifyPrim(v.get[i])
         \o StringifyMembers(v, i + 1, FALSE)

\* JSON.stringify(v): a JS string, or undefined when v is undefined
JSONStringify(v) ==
  CASE v.t = "undefined" -> Undefined
    [] v.t = "object" -> Str("{" \o StringifyMembers(v, 1, TRUE) \o "}")
    [] OTHER -> Str(StringifyPrim(v))

\* `${v}` for a string or undefined
Template(v) == IF v.t = "undefined" THEN "undefined" ELSE v.s

\* String(v) as used by buildUrl
ToStr(v) ==
  CASE v.t = "undefined" -> "undefined"
    [] v.t = "null" -> "null"
    [] v.t = "number" -> ToString(v.n)
    [] v.t = "string" -> v.s
    [] v.t = "boolean" -> IF v.b THEN "true" ELSE "false"
    [] v.t = "object" -> "[object Object]"

(***************************************************************************)
(* The result envelope ApiResult {success, data?, error?, status?}.        *)
(***************************************************************************)
Envelope(success, data, error, status) ==
  [success |-> success, data |-> data, error |-> error, status |-> status]

Failure(msg) == Envelope(FALSE, Absent, Str(msg), Absent)

(***************************************************************************)
(* The YAML catalog and its parse.                                         *)
(***************************************************************************)
\* requestSchema of getUser in the catalog of the test suite: id required integer
SchemaIdInteger ==
  [present |-> TRUE, entries |->
  <<[key |-> "id", required |-> TRUE, valueType |-> "integer",
     validations |-> Absent]>>]

\* a schema whose required rule carries its own error message, with a least value
SchemaIdOverride ==
  [present |-> TRUE, entries |->
  <<[key |-> "id", required |-> TRUE, valueType |-> "",
     validations |-> [t |-> "object", minLength |-> Undefined, maxLength |-> Undefined,
                      email |-> FALSE, minValue |-> Num(2),
                      errorMessages |-> [required |-> Str("ID needed"),
                                         minLength |-> Undefined,
                                         maxLength |-> Undefined,
                                         email |-> Undefined,
                                         minValue |-> Undefined]]]>>]

\* an endpoint without requestSchema
NoSchema == [present |-> FALSE, entries |-> <<>>]

\* the endpoints list of the catalog
Endpoints ==
  << [endpointName |-> "getUser", url |-> "/api/user", method |-> "GET",
      requiresAuth |-> FALSE, retry |-> Num(0), mock |-> FALSE,
      cache |-> FALSE, requestSchema |-> SchemaIdInteger],
     [endpointName |-> "listUsers", url |-> "/api/users", method |-> "GET",
      requiresAuth |-> TRUE, retry |-> Num(MaxRetry), mock |-> FALSE,
      cache |-> TRUE, requestSchema |-> SchemaIdOverride],
     [endpointName |-> "mockUser", url |-> "/api/mock", method |-> "POST",
      requiresAuth |-> FALSE, retry |-> Undefined, mock |-> TRUE,
      cache |-> FALSE, requestSchema |-> NoSchema] >>

\* a loaded document with an endpoints list
CatalogObject == [t |-> "object", hasEndpoints |-> TRUE, endpoints |-> Endpoints]

\* a loaded document (a mapping or a list) that has no endpoints member
NoEndpointsObject == [t |-> "object", hasEndpoints |-> FALSE, endpoints |-> <<>>]

\* the YAML texts handed to a provider, by what yaml.load makes of them
YamlDocs == {"malformed", "empty", "scalar", "list", "noEndpoints", "catalog"}

\* yaml.load(yamlString): a thrown YAMLException or the loaded document
YamlLoad(doc) ==
  CASE doc = "malformed" -> [threw |-> TRUE, value |-> Undefined]
    [] doc = "empty" -> [threw |-> FALSE, value |-> Undefined]
    [] doc = "scalar" -> [threw |-> FALSE, value |-> Str("hello")]
    [] doc = "list" -> [threw |-> FALSE, value |-> NoEndpointsObject]
    [] doc = "noEndpoints" -> [threw |-> FALSE, value |-> NoEndpointsObject]
    [] doc = "catalog" -> [threw |-> FALSE, value |-> CatalogObject]

\* parseYaml(yamlString): throws unless the document is a non-null object
parseYaml(doc) ==
  LET r == YamlLoad(doc) IN
  IF r.threw \/ TypeOf(r.value) # "object" \/ r.value.t = "null"
  THEN [threw |-> TRUE, value |-> Undefined]
  ELSE [threw |-> FALSE, value |-> r.value]

\* useState initialiser of the provider: the parsed catalog, or null
InitialConfig(doc) ==
  LET r == parseYaml(doc) IN IF r.threw THEN Null ELSE r.value

(***************************************************************************)
(* Helpers of the request handler.                                         *)
(***************************************************************************)
\* /^[^\s@]+@[^\s@]+\.[^\s@]+$/.test(s) on the strings of the payload domain
EmailRegexTest(s) == s \in {"a@b.c"}

\* the errors validateData pushes for one schema entry, in the order pushed
EntryErrors(data, rules) ==
  LET key == rules.key
      value == Prop(data, key)
      v == rules.validations
      hasV == v.t # "absent"
      requiredErr ==
        IF rules.required /\ (value.t = "undefined" \/ value.t = "null"
                               \/ value = Str(""))
        THEN << ToStr(OrElse(IF hasV THEN v.errorMessages.required ELSE Undefined,
                             Str(key \o " is required"))) >>
        ELSE << >>
      integerErr ==
        IF rules.valueType = "integer" /\ value.t # "undefined"
           /\ TypeOf(value) # "number"
        THEN << key \o " must be an integer" >> ELSE << >>
      stringErr ==
        IF rules.valueType = "string" /\ value.t # "undefined"
           /\ TypeOf(value) # "string"
        THEN << key \o " must be a string" >> ELSE << >>
      minLengthErr ==
        IF hasV /\ Truthy(v.minLength) /\ TypeOf(value) = "string"
           /\ Len(value.s) < v.minLength.n
        THEN << ToStr(OrElse(v.errorMessages.minLength,
                  Str(key \o " must be at least " \o ToStr(v.minLength)
                      \o " characters"))) >>
        ELSE << >>
      maxLengthErr ==
        IF hasV /\ Truthy(v.maxLength) /\ TypeOf(value) = "string"
           /\ Len(value.s) > v.maxLength.n
        THEN << ToStr(OrElse(v.errorMessages.maxLength,
                  Str(key \o " must be at most " \o ToStr(v.maxLength)
                      \o " characters"))) >>
        ELSE << >>
      emailErr ==
        IF hasV /\ v.email /\ TypeOf(value) = "string" /\ ~EmailRegexTest(value.s)
        THEN << ToStr(OrElse(v.errorMessages.email,
                  Str(key \o " is not a valid email"))) >>
        ELSE << >>
      minValueErr ==
        IF hasV /\ v.minValue.t # "undefined" /\ TypeOf(value) = "number"
           /\ value.n < v.minValue.n
        THEN << ToStr(OrElse(v.errorMessages.minValue,
                  Str(key \o " must be at least " \o ToStr(v.minValue)))) >>
        ELSE << >>
  IN requiredErr \o integerErr \o stringErr \o minLengthErr \o maxLengthErr
       \o emailErr \o minValueErr

RECURSIVE SchemaErrors(_, _, _)
\* the errors of the schema entries from index i on
SchemaErrors(data, entries, i) ==
  IF i > Len(entries) THEN << >>
  ELSE EntryErrors(data, entries[i]) \o SchemaErrors(data, entries, i + 1)

\* validateData(data, schema)
validateData(data, schema) ==
  IF ~schema.present THEN [valid |-> TRUE, errors |-> << >>]
  ELSE LET errors == SchemaErrors(data, schema.entries, 1)
       IN [valid |-> Len(errors) = 0, errors |-> errors]

RECURSIVE Join(_, _, _)
\* errors.join(sep) from index i on
Join(errors, sep, i) ==
  IF i > Len(errors) THEN ""
  ELSE IF i = Len(errors) THEN errors[i]
  ELSE errors[i] \o sep \o Join(errors, sep, i + 1)

\* findEndpoint(config, endpointName): throws a TypeError when the parsed
\* object has no endpoints list, else the first endpoint of that name or undefined
findEndpoint(cfg, endpointName) ==
  IF cfg.t = "null" THEN [threw |-> FALSE, found |-> FALSE, ep |-> Endpoints[1]]
  ELSE IF ~cfg.hasEndpoints THEN [threw |-> TRUE, found |-> FALSE, ep |-> Endpoints[1]]
  ELSE IF \E i \in 1..Len(cfg.endpoints) : cfg.endpoints[i].endpointName = endpointName
  THEN [threw |-> FALSE, found |-> TRUE,
        ep |-> cfg.endpoints[CHOOSE i \in 1..Len(cfg.endpoints) :
                 /\ cfg.endpoints[i].endpointName = endpointName
                 /\ \A j \in 1..(i - 1) : cfg.endpoints[j].endpointName # endpointName]]
  ELSE [threw |-> FALSE, found |-> FALSE, ep |-> Endpoints[1]]

\* encodeURIComponent(s): reserved characters are percent-encoded; strings of
\* unreserved characters (letters, digits, - _ . ! ~ * ' ( )) are left as they are
EncodeURIComponent(s) ==
  CASE s = "a b" -> "a%20b"
    [] s = "a&b" -> "a%26b"
    [] s = "a=b" -> "a%3Db"
    [] s = "[object Object]" -> "%5Bobject%20Object%5D"
    [] OTHER -> s

RECURSIVE QueryFrom(_, _)
\* the k=v pairs of Object.entries(params) from index i on, joined by &
QueryFrom(params, i) ==
  IF i > Len(params.keys) THEN ""
  ELSE EncodeURIComponent(params.keys[i]) \o "="
         \o EncodeURIComponent(ToStr(params.get[i]))
         \o (IF i < Len(params.keys) THEN "&" ELSE "")
         \o QueryFrom(params, i + 1)

\* buildUrl(url, params)
buildUrl(url, params) ==
  IF ~Truthy(params) THEN url
  ELSE LET query == IF params.t = "object" THEN QueryFrom(params, 1) ELSE ""
       IN IF query # "" THEN url \o "?" \o query ELSE url

(***************************************************************************)
(* Inputs of the operations.                                               *)
(***************************************************************************)
Methods == {"GET", "POST", "PUT", "DELETE"}

\* endpoint names a caller may pass: those of the catalog and one that is in none
EndpointNames == {"getUser", "listUsers", "mockUser", "nope"}

\* payloads a caller may pass
Payloads ==
  { Undefined, EmptyObj, Obj(<<"id">>, <<Num(1)>>), Obj(<<"id">>, <<Num(2)>>),
    Obj(<<"id">>, <<Null>>), Obj(<<"id">>, <<Str("")>>) }

\* the onComplete option: left out, a callback that returns, a callback that throws
Callbacks == {"none", "returns", "throws"}

\* message of the Error a throwing onComplete raises
CallbackErrorMessage == "callback failed"

\* message of the TypeError raised by config.endpoints.find on a missing list
TypeErrorMessage == "Cannot read properties of undefined (reading 'find')"

\* tokens a host may pass to setToken
Tokens == {"", "t1"}

\* what the transport does with one fetch: the promise is rejected, or a
\* response arrives whose body parses to a JSON value or does not parse
TransportOutcomes ==
  { [kind |-> "reject", status |-> 0, parses |-> FALSE, body |-> Undefined,
     message |-> "Network down"],
    [kind |-> "response", status |-> 200, parses |-> TRUE,
     body |-> Obj(<<"id">>, <<Num(1)>>), message |-> ""],
    [kind |-> "response", status |-> 200, parses |-> TRUE, body |-> Num(0),
     message |-> ""],
    [kind |-> "response", status |-> 200, parses |-> FALSE, body |-> Undefined,
     message |-> ""],
    [kind |-> "response", status |-> 404, parses |-> TRUE,
     body |-> Obj(<<"message">>, <<Str("User not found")>>), message |-> ""],
    [kind |-> "response", status |-> 404, parses |-> TRUE,
     body |-> Obj(<<"message">>, <<Str("")>>), message |-> ""],
    [kind |-> "response", status |-> 500, parses |-> FALSE, body |-> Undefined,
     message |-> ""] }

\* response.ok
ResponseOk(o) == o.status >= 200 /\ o.status <= 299

(***************************************************************************)
(* A call of get/post/put/delete.  st is the position of its promise:      *)
(* "fetching" while it awaits fetch, then "resolved" or "rejected".        *)
(* validated, cacheRead, cacheWrites, cbLog, sent and seen record what     *)
(* the call has done so far.                                               *)
(***************************************************************************)
Slots == {1}

IdleCall == [st |-> "idle"]

\* options?.onComplete?.(env): the callback log after the invocation
Invoke(c, env) == IF c.onComplete = "none" THEN c.cbLog ELSE Append(c.cbLog, env)

\* the request ends by returning env after handing it to onComplete
Settle(c, path, env) ==
  LET d == [c EXCEPT !.path = path, !.cbLog = Invoke(c, env)] IN
  IF c.onComplete = "throws"
  THEN [d EXCEPT !.st = "rejected", !.reason = CallbackErrorMessage]
  ELSE [d EXCEPT !.st = "resolved", !.result = env]

\* `${endpointName}:${JSON.stringify(payload)}`
CacheKey(endpointName, payload) ==
  endpointName \o ":" \o Template(JSONStringify(payload))

\* apiCache[cacheKey]
CacheGet(cache, key) == IF key \in DOMAIN cache THEN cache[key] ELSE Undefined

\* a write that keeps the entry a key already has: the first writer wins
CachePut_KeepFirst(cache, key, data) ==
  [k \in DOMAIN cache \cup {key} |-> IF k \in DOMAIN cache THEN cache[k] ELSE data]

\* a write that replaces the cache by the one entry written
CachePut_Evicting(cache, key, data) == [k \in {key} |-> data]

\* apiCache[cacheKey] = data
CachePut(cache, key, data) ==
  [k \in DOMAIN cache \cup {key} |-> IF k = key THEN data ELSE cache[k]]

\* the endpoint a call past the lookup holds in its closure
EndpointOf(c) == findEndpoint(config[c.provider], c.endpointName).ep

\* the cache condition without its verb test: any verb would use the cache
CacheEnabled_AnyMethod(c) == c.useCache \/ EndpointOf(c).cache

\* (options?.useCache || endpoint.cache) && method === "GET"
CacheEnabled(c) == (c.useCache \/ EndpointOf(c).cache) /\ c.method = "GET"

\* request options that take the method from the endpoint descriptor
FetchOptions_DeclaredMethod(c, token) ==
  [method |-> EndpointOf(c).method,
   authorization |-> IF EndpointOf(c).requiresAuth /\ Truthy(token)
                     THEN Str("Bearer " \o token.s) ELSE Absent,
   body |-> IF EndpointOf(c).method \in {"POST", "PUT"} THEN JSONStringify(c.payload)
            ELSE Absent]

\* the fetchOptions of a request: method, Authorization header, body
FetchOptions(c, token) ==
  [method |-> c.method,
   authorization |-> IF EndpointOf(c).requiresAuth /\ Truthy(token)
                     THEN Str("Bearer " \o token.s) ELSE Absent,
   body |-> IF c.method \in {"POST", "PUT"} THEN JSONStringify(c.payload)
            ELSE Absent]

\* a dispatch that builds the request options anew from the token now set
Dispatch_CurrentToken(c) ==
  [c EXCEPT !.st = "fetching",
            !.sent = Append(c.sent, [url |-> c.url,
                        options |-> FetchOptions(c, tokenRef[c.provider])])]

\* fetch(url, fetchOptions) is called: one more network attempt
Dispatch(c) ==
  [c EXCEPT !.st = "fetching",
            !.sent = Append(c.sent, [url |-> c.url, options |-> c.fetchOptions])]

\* the record of a call that has just been made
NewCall(p, endpointName, method, payload, useMock, useCache, onComplete) ==
  [st |-> "running", provider |-> p, endpointName |-> endpointName,
   method |-> method, payload |-> payload, useMock |-> useMock,
   useCache |-> useCache, onComplete |-> onComplete,
   url |-> "",
   fetchOptions |-> [method |-> method, authorization |-> Absent, body |-> Absent],
   retrying |-> FALSE, retries |-> 0, i |-> 0,
   lastError |-> Failure("Unknown error"),
   result |-> Absent, reason |-> "", path |-> "",
   cachedAtCall |-> CacheGet(apiCache, CacheKey(endpointName, payload)),
   priorOk |-> IF <<endpointName, Template(JSONStringify(payload))>> \in DOMAIN firstOk
               THEN firstOk[<<endpointName, Template(JSONStringify(payload))>>]
               ELSE Absent,
   validated |-> FALSE, cacheRead |-> FALSE, cacheWrites |-> 0,
   cbLog |-> << >>, sent |-> << >>, seen |-> << >>]

\* request(endpointName, method, payload, options) up to its first await:
\* the call as it stands when the synchronous part has run
request(p, endpointName, method, payload, useMock, useCache, onComplete) ==
  LET c0 == NewCall(p, endpointName, method, payload, useMock, useCache, onComplete)
      fe == findEndpoint(config[p], endpointName)
      c1 == [c0 EXCEPT !.validated = TRUE]
      validation == validateData(OrElse(payload, EmptyObj), fe.ep.requestSchema)
      mockData == Obj(<<"mock", "endpoint", "payload">>,
                      <<Bool(TRUE), Str(endpointName), payload>>)
      c2 == [c1 EXCEPT !.cacheRead = CacheEnabled(c1)]
      cached == CacheGet(apiCache, CacheKey(endpointName, payload))
      c3 == [c2 EXCEPT
               !.url = IF method \in {"GET", "DELETE"}
                       THEN buildUrl(fe.ep.url, payload) ELSE fe.ep.url,
               !.fetchOptions = FetchOptions(c2, tokenRef[p]),
               !.retrying = Truthy(fe.ep.retry),
               !.retries = IF Truthy(fe.ep.retry) THEN fe.ep.retry.n ELSE 0,
               !.path = "network"]
  IN
  IF fe.threw
  THEN [c0 EXCEPT !.st = "rejected", !.reason = TypeErrorMessage, !.path = "threw"]
  ELSE IF ~fe.found
  THEN Settle(c0, "notfound",
         Failure("Endpoint \"" \o endpointName \o "\" not found in configuration"))
  ELSE IF ~validation.valid
  THEN Settle(c1, "invalid",
         Failure("Validation failed: " \o Join(validation.errors, ", ", 1)))
  ELSE IF useMock \/ fe.ep.mock
  THEN Settle(c1, "mock", Envelope(TRUE, mockData, Absent, Absent))
  ELSE IF CacheEnabled(c1) /\ Truthy(cached)
  THEN Settle(c2, "cachehit", Envelope(TRUE, cached, Absent, Absent))
  ELSE Dispatch(c3)

\* doFetch from the point where fetch settles with outcome o: what it returns
\* or throws, the callback log and the cache it leaves
doFetch(c, o, cache) ==
  LET data == IF o.parses THEN o.body ELSE EmptyObj
      throws == c.onComplete = "throws"
      \* catch (err): hand the failure to onComplete and return it
      caught(log, msg, ch, writes) ==
        LET env == Failure(msg)
            d == [c EXCEPT !.cbLog = log] IN
        [threw |-> throws, env |-> env, cbLog |-> Invoke(d, env),
         cache |-> ch, cacheWrites |-> writes]
      errorMsg == OrElse(OptProp(data, "message"),
                         Str("API error: " \o ToString(o.status)))
      failEnv == Envelope(FALSE, Absent, errorMsg, Num(o.status))
      okEnv == Envelope(TRUE, data, Absent, Num(o.status))
      written == IF CacheEnabled(c)
                 THEN CachePut(cache, CacheKey(c.endpointName, c.payload), data)
                 ELSE cache
      writes == IF CacheEnabled(c) THEN c.cacheWrites + 1 ELSE c.cacheWrites
  IN
  IF o.kind = "reject" THEN caught(c.cbLog, o.message, cache, c.cacheWrites)
  ELSE IF ~ResponseOk(o)
  THEN IF throws
       THEN caught(Invoke(c, failEnv), CallbackErrorMessage, cache, c.cacheWrites)
       ELSE [threw |-> FALSE, env |-> failEnv, cbLog |-> Invoke(c, failEnv),
             cache |-> cache, cacheWrites |-> c.cacheWrites]
  ELSE IF throws
       THEN caught(Invoke(c, okEnv), CallbackErrorMessage, written, writes)
       ELSE [threw |-> FALSE, env |-> okEnv, cbLog |-> Invoke(c, okEnv),
             cache |-> written, cacheWrites |-> writes]

\* the call after one doFetch has finished with r: without retry the result of
\* doFetch is the result of the request; under retryRequest a success returns,
\* anything else becomes lastError and the loop goes on while i <= retries
retryRequest(c, r) ==
  LET d == [c EXCEPT !.cbLog = r.cbLog, !.cacheWrites = r.cacheWrites]
      lastError == IF r.threw THEN Failure(CallbackErrorMessage) ELSE r.env
      e == [d EXCEPT !.lastError = lastError, !.i = c.i + 1]
  IN
  IF ~c.retrying
  THEN IF r.threw
       THEN [d EXCEPT !.st = "rejected", !.reason = CallbackErrorMessage]
       ELSE [d EXCEPT !.st = "resolved", !.result = r.env]
  ELSE IF ~r.threw /\ r.env.success
  THEN [d EXCEPT !.st = "resolved", !.result = r.env]
  ELSE IF e.i <= e.retries THEN Dispatch(e)
  ELSE [e EXCEPT !.st = "resolved", !.result = lastError]

(***************************************************************************)
(* The state machine.                                                      *)
(***************************************************************************)
\* the providers mounted by the host
Mounted == {"p1"}

Init ==
  /\ \E docs \in [Mounted -> YamlDocs] :
       config = [p \in Mounted |-> InitialConfig(docs[p])]
  /\ tokenRef \in [Mounted -> {Undefined} \cup {Str(t) : t \in Tokens}]
  /\ apiCache = [k \in {} |-> Undefined]
  /\ calls = [s \in Slots |-> IdleCall]
  /\ nCalls = 0
  /\ firstOk = [k \in {} |-> Undefined]
  /\ yamlConfig = ""
  /\ rendered = [kind |-> "none", controls |-> << >>]
  /\ formValues = [k \in {} |-> Undefined]
  /\ formErrors = [k \in {} |-> ""]
  /\ submitted = [st |-> "none", calls |-> << >>]
  /\ filePreviews = [k \in {} |-> Null]
  /\ showPassword = FALSE

\* the data of the first response with which a cache-enabled GET of each
\* endpoint name and serialised payload resolved successfully
Remember(seenOk, c) ==
  LET key == <<c.endpointName, Template(JSONStringify(c.payload))>> IN
  IF c.st = "resolved" /\ c.result.success /\ c.method = "GET"
     /\ (c.useCache \/ EndpointOf(c).cache) /\ key \notin DOMAIN seenOk
  THEN [k \in DOMAIN seenOk \cup {key} |->
          IF k = key THEN c.result.data ELSE seenOk[k]]
  ELSE seenOk

\* no call has settled without its caller having resumed
NoneSettled == \A s \in DOMAIN calls : calls[s].st \in {"idle", "fetching"}

\* the next call can be made, and takes slot s
CanCall(s) ==
  /\ nCalls < MaxCalls
  /\ NoneSettled
  /\ calls[s].st = "idle"
  /\ \A r \in DOMAIN calls : r < s => calls[r].st # "idle"

\* a verb function is called: the request runs up to its first await
Call(s, p, endpointName, method, payload, useMock, useCache, onComplete) ==
  /\ CanCall(s)
  /\ calls' = [calls EXCEPT ![s] =
       request(p, endpointName, method, payload, useMock, useCache, onComplete)]
  /\ nCalls' = nCalls + 1
  /\ UNCHANGED <<config, tokenRef, apiCache, firstOk>>
  /\ UNCHANGED formVars

get(s, p, endpointName, params, useMock, useCache, onComplete) ==
  Call(s, p, endpointName, "GET", params, useMock, useCache, onComplete)

post(s, p, endpointName, data, useMock, useCache, onComplete) ==
  Call(s, p, endpointName, "POST", data, useMock, useCache, onComplete)

put(s, p, endpointName, data, useMock, useCache, onComplete) ==
  Call(s, p, endpointName, "PUT", data, useMock, useCache, onComplete)

del(s, p, endpointName, params, useMock, useCache, onComplete) ==
  Call(s, p, endpointName, "DELETE", params, useMock, useCache, onComplete)

\* the fetch a call awaits settles with outcome o; the call runs on to its
\* next fetch or to its end
FetchSettled(s, o) ==
  /\ NoneSettled
  /\ calls[s].st = "fetching"
  /\ LET c == [calls[s] EXCEPT !.seen = Append(calls[s].seen, o)]
         r == doFetch(c, o, apiCache)
     IN /\ calls' = [calls EXCEPT ![s] = retryRequest(c, r)]
        /\ apiCache' = r.cache
        /\ firstOk' = Remember(firstOk, retryRequest(c, r))
  /\ UNCHANGED <<config, tokenRef, nCalls>>
  /\ UNCHANGED formVars

\* the promise of a settled call is handed to its caller, whose continuation
\* runs as a microtask before any other event; nothing refers to the call
\* any more
Collect(s) ==
  /\ calls[s].st \in {"resolved", "rejected"}
  /\ calls' = [calls EXCEPT ![s] = IdleCall]
  /\ UNCHANGED <<config, tokenRef, apiCache, nCalls, firstOk>>
  /\ UNCHANGED formVars

\* a setToken that writes one token holder shared by every provider
setToken_Shared(p, token) ==
  /\ NoneSettled
  /\ tokenRef' = [q \in DOMAIN tokenRef |-> Str(token)]
  /\ UNCHANGED <<config, apiCache, calls, nCalls, firstOk>>
  /\ UNCHANGED formVars

\* setToken(token)
setToken(p, token) ==
  /\ NoneSettled
  /\ tokenRef' = [tokenRef EXCEPT ![p] = Str(token)]
  /\ UNCHANGED <<config, apiCache, calls, nCalls, firstOk>>
  /\ UNCHANGED formVars

Next ==
  \/ \E s \in {r \in Slots : CanCall(r)}, p \in Mounted, e \in EndpointNames,
        d \in Payloads, m \in BOOLEAN, k \in BOOLEAN, cb \in Callbacks :
       get(s, p, e, d, m, k, cb)
  \/ \E s \in {r \in Slots : CanCall(r)}, p \in Mounted, e \in EndpointNames,
        d \in Payloads, m \in BOOLEAN, k \in BOOLEAN, cb \in Callbacks :
       post(s, p, e, d, m, k, cb)
  \/ \E s \in {r \in Slots : CanCall(r)}, p \in Mounted, e \in EndpointNames,
        d \in Payloads, m \in BOOLEAN, k \in BOOLEAN, cb \in Callbacks :
       put(s, p, e, d, m, k, cb)
  \/ \E s \in {r \in Slots : CanCall(r)}, p \in Mounted, e \in EndpointNames,
        d \in Payloads, m \in BOOLEAN, k \in BOOLEAN, cb \in Callbacks :
       del(s, p, e, d, m, k, cb)
  \/ \E s \in Slots, o \in TransportOutcomes : FetchSettled(s, o)
  \/ \E s \in Slots : Collect(s)
  \/ \E p \in Mounted, t \in Tokens : setToken(p, t)

Spec == Init /\ [][Next]_vars

(***************************************************************************)
(* Two provider instances in one process, with calls in flight at the same *)
(* time: the cache is the module-level object both share, the token holder *)
(* is the ref of each instance.                                            *)
(***************************************************************************)
\* two providers mounted by the host
SharedMounted == {"p1", "p2"}

\* two calls can await their fetch at the same time
SharedSlots == {1, 2}

\* the endpoints called: one cached by its descriptor, one on request
SharedNames == {"getUser", "listUsers"}

\* the payloads passed: {id: 2} is valid for both endpoints
SharedPayloads == {Obj(<<"id">>, <<Num(1)>>), Obj(<<"id">>, <<Num(2)>>)}

\* the transport outcomes: a rejection and two 2xx responses of different bodies
SharedOutcomes ==
  {o \in TransportOutcomes : o.kind = "reject" \/ (o.status = 200 /\ o.parses)}

\* both providers are given the catalog and no initial token
SharedInit ==
  /\ config = [p \in SharedMounted |-> InitialConfig("catalog")]
  /\ tokenRef = [p \in SharedMounted |-> Undefined]
  /\ apiCache = [k \in {} |-> Undefined]
  /\ calls = [s \in SharedSlots |-> IdleCall]
  /\ nCalls = 0
  /\ firstOk = [k \in {} |-> Undefined]
  /\ yamlConfig = ""
  /\ rendered = [kind |-> "none", controls |-> << >>]
  /\ formValues = [k \in {} |-> Undefined]
  /\ formErrors = [k \in {} |-> ""]
  /\ submitted = [st |-> "none", calls |-> << >>]
  /\ filePreviews = [k \in {} |-> Null]
  /\ showPassword = FALSE

SharedNext ==
  \/ \E s \in {r \in SharedSlots : CanCall(r)}, p \in SharedMounted,
        e \in SharedNames, d \in SharedPayloads, k \in BOOLEAN :
       get(s, p, e, d, FALSE, k, "none")
  \/ \E s \in {r \in SharedSlots : CanCall(r)}, p \in SharedMounted,
        e \in SharedNames, d \in SharedPayloads :
       post(s, p, e, d, FALSE, TRUE, "none")
  \/ \E s \in SharedSlots, o \in SharedOutcomes : FetchSettled(s, o)
  \/ \E s \in SharedSlots : Collect(s)
  \/ \E p \in SharedMounted : setToken(p, "t1")

SharedSpec == SharedInit /\ [][SharedNext]_vars

(***************************************************************************)
(* Vocabulary of the properties.                                           *)
(***************************************************************************)
\* the calls that have been made and not yet handed back
Active == {s \in Slots : calls[s].st # "idle"}

Settled(c) == c.st \in {"resolved", "rejected"}

\* the catalog of provider p lists an endpoint of that name
InCatalog(p, name) ==
  /\ config[p].t = "object"
  /\ \E i \in 1..Len(config[p].endpoints) : config[p].endpoints[i].endpointName = name

\* the descriptor of that name in the catalog of provider p
Descriptor(p, name) ==
  config[p].endpoints[CHOOSE i \in 1..Len(config[p].endpoints) :
                        config[p].endpoints[i].endpointName = name]

\* every envelope a call has produced: those handed to onComplete and the one
\* its promise resolved to
Emitted(c) ==
  {c.cbLog[i] : i \in 1..Len(c.cbLog)}
    \cup (IF c.st = "resolved" THEN {c.result} ELSE {})

NotFoundEnvelope(name) ==
  Failure("Endpoint \"" \o name \o "\" not found in configuration")

MockEnvelope(c) ==
  Envelope(TRUE, Obj(<<"mock", "endpoint", "payload">>,
                     <<Bool(TRUE), Str(c.endpointName), c.payload>>),
           Absent, Absent)

\* the payload of c passes the request schema of descriptor d
PayloadValid(c, d) ==
  validateData(OrElse(c.payload, EmptyObj), d.requestSchema).valid

\* response number i of call c was a 2xx response
Was2xx(c, i) ==
  c.seen[i].kind = "response" /\ c.seen[i].status >= 200 /\ c.seen[i].status <= 299

(***************************************************************************)
(* C1: every call of get/post/put/delete resolves to one envelope and its  *)
(* promise is never rejected, whatever the catalog, the payload, the       *)
(* transport outcome and the behaviour of onComplete.                      *)
(***************************************************************************)
C1_NeverRejected ==
  \A s \in Active :
    /\ calls[s].st # "rejected"
    /\ calls[s].st = "resolved" =>
         calls[s].result.success \in BOOLEAN

(***************************************************************************)
(* C2: the checks run in the order endpoint existence, payload validation, *)
(* mock, cache (GET only), network, and the first that decides ends the    *)
(* request: an unknown endpoint is never validated; an invalid payload     *)
(* yields the validation failure even when mock or a cached entry is       *)
(* there; a mock-enabled call yields the mock data even when an entry is   *)
(* cached; the network is dispatched only when no earlier check decided.   *)
(***************************************************************************)
C2_CheckOrder ==
  \A s \in Active :
    LET c == calls[s]
        known == InCatalog(c.provider, c.endpointName)
        d == Descriptor(c.provider, c.endpointName)
        valid == PayloadValid(c, d)
        mock == c.useMock \/ d.mock
        cacheOn == c.method = "GET" /\ (c.useCache \/ d.cache)
        hit == cacheOn /\ Truthy(c.cachedAtCall)
    IN
    /\ (Settled(c) /\ Len(c.sent) = 0 /\ c.path # "threw") => Emitted(c) # {}
    /\ IF ~known
       THEN /\ ~c.validated /\ ~c.cacheRead /\ Len(c.sent) = 0
            /\ Emitted(c) \subseteq {NotFoundEnvelope(c.endpointName)}
       ELSE IF ~valid
       THEN /\ c.validated /\ ~c.cacheRead /\ Len(c.sent) = 0
            /\ \A e \in Emitted(c) : ~e.success /\ e.data = Absent /\ e.status = Absent
       ELSE IF mock
       THEN /\ ~c.cacheRead /\ Len(c.sent) = 0
            /\ Emitted(c) \subseteq {MockEnvelope(c)}
       ELSE IF hit
       THEN /\ c.cacheRead /\ Len(c.sent) = 0
            /\ Emitted(c) \subseteq {Envelope(TRUE, c.cachedAtCall, Absent, Absent)}
       ELSE /\ Len(c.sent) >= 1
            /\ c.cacheRead <=> cacheOn

\* a mock-enabled call with a valid payload was made while an entry was cached
\* under its key, and has resolved
C2_Witness ==
  \E s \in Active :
    /\ calls[s].st = "resolved"
    /\ calls[s].useMock
    /\ calls[s].method = "GET"
    /\ Truthy(calls[s].cachedAtCall)
    /\ calls[s].result.success

(***************************************************************************)
(* C3: a request that reaches the network on an endpoint with retry = N    *)
(* makes exactly N+1 attempts when every attempt fails, and exactly k      *)
(* attempts when the k-th is the first to succeed.                         *)
(***************************************************************************)
C3_AttemptCount ==
  \A s \in Active :
    LET c == calls[s]
        d == Descriptor(c.provider, c.endpointName)
        N == IF d.retry.t = "number" THEN d.retry.n ELSE 0
        oks == {i \in 1..Len(c.seen) : Was2xx(c, i)}
    IN
    Len(c.sent) >= 1 =>
      /\ Len(c.sent) <= N + 1
      /\ \A i \in oks : Len(c.sent) <= i
      /\ (Settled(c) /\ oks = {}) => Len(c.sent) = N + 1

(***************************************************************************)
(* C4: once a cache-enabled GET with endpoint name E and payload P has     *)
(* resolved successfully, every later cache-enabled GET with the same E    *)
(* and a JSON-identical P returns a success envelope with the data of the  *)
(* first response and dispatches nothing, whatever that data is.  Stated   *)
(* for later calls that are not mock-enabled and whose onComplete, if      *)
(* any, returns.                                                           *)
(***************************************************************************)
C4_CachedRepeat ==
  \A s \in Active :
    LET c == calls[s]
        d == Descriptor(c.provider, c.endpointName)
    IN
    ( /\ InCatalog(c.provider, c.endpointName)
      /\ c.method = "GET" /\ (c.useCache \/ d.cache)
      /\ ~c.useMock /\ ~d.mock /\ c.onComplete # "throws"
      /\ c.priorOk # Absent )
    => /\ Len(c.sent) = 0
       /\ c.st = "resolved"
       /\ c.result.success
       /\ c.result.data = c.priorOk

(***************************************************************************)
(* C5: a call with a schema-valid payload P to an existing mock-enabled    *)
(* endpoint E, with any verb, results in the success envelope with data    *)
(* {mock: true, endpoint: E, payload: P}, dispatches nothing and neither   *)
(* reads nor writes the cache.                                             *)
(***************************************************************************)
C5_MockRoundTrip ==
  \A s \in Active :
    LET c == calls[s]
        d == Descriptor(c.provider, c.endpointName)
    IN
    ( /\ InCatalog(c.provider, c.endpointName)
      /\ PayloadValid(c, d)
      /\ (c.useMock \/ d.mock) )
    => /\ c.st = "resolved"
       /\ c.result = MockEnvelope(c)
       /\ Len(c.sent) = 0
       /\ ~c.cacheRead
       /\ c.cacheWrites = 0

RECURSIVE RequiredMessages(_, _, _)
\* for the schema entries from index i on whose required field is undefined,
\* null or the empty string in data: the configured message or "<field> is required"
RequiredMessages(data, entries, i) ==
  IF i > Len(entries) THEN << >>
  ELSE LET e == entries[i]
           value == Prop(data, e.key)
           missing == e.required /\ value \in {Undefined, Null, Str("")}
           override == IF e.validations.t = "object"
                       THEN e.validations.errorMessages.required ELSE Undefined
           msg == IF override.t = "string" /\ override.s # "" THEN override.s
                  ELSE e.key \o " is required"
       IN (IF missing THEN <<msg>> ELSE << >>)
            \o RequiredMessages(data, entries, i + 1)

(***************************************************************************)
(* C6: a call whose payload lacks a required field (undefined, null or     *)
(* empty string) returns {success: false, error: "Validation failed: " +   *)
(* the comma-separated field errors, each the configured override or       *)
(* "<field> is required"} without status and without dispatch; get of      *)
(* getUser with {id: 1} reaches the network and returns its 2xx result as  *)
(* {success: true, data, status}.  Stated for calls whose onComplete, if   *)
(* any, returns.                                                           *)
(***************************************************************************)
C6_RequiredMessage ==
  \A s \in Active :
    LET c == calls[s]
        d == Descriptor(c.provider, c.endpointName)
        data == IF Truthy(c.payload) THEN c.payload ELSE EmptyObj
        msgs == RequiredMessages(data, d.requestSchema.entries, 1)
        last == c.seen[Len(c.seen)]
    IN
    (InCatalog(c.provider, c.endpointName) /\ c.onComplete # "throws") =>
      /\ (d.requestSchema.present /\ Len(msgs) > 0) =>
           /\ c.st = "resolved"
           /\ c.result = Failure("Validation failed: " \o Join(msgs, ", ", 1))
           /\ Len(c.sent) = 0
      /\ ( /\ c.endpointName = "getUser" /\ c.method = "GET"
           /\ c.payload = Obj(<<"id">>, <<Num(1)>>)
           /\ ~c.useMock /\ ~c.useCache )
         => /\ Len(c.sent) >= 1
            /\ (Settled(c) /\ Was2xx(c, Len(c.seen))) =>
                 /\ c.st = "resolved"
                 /\ c.result = Envelope(TRUE,
                                 IF last.parses THEN last.body ELSE EmptyObj,
                                 Absent, Num(last.status))

(***************************************************************************)
(* C7: a dispatched request carries Authorization: Bearer <token> exactly  *)
(* when its endpoint declares requiresAuth and a non-empty token is set    *)
(* when the call is made; setToken changes no request already issued, and  *)
(* every later attempt of a request carries the header of its first.       *)
(***************************************************************************)
C7_AuthHeader ==
  [][ /\ (tokenRef' # tokenRef) => (calls' = calls)
      /\ \A s \in Slots :
           LET c == calls[s]
               n == calls'[s]
               before == IF c.st = "idle" THEN 0 ELSE Len(c.sent)
           IN
           (n.st # "idle" /\ Len(n.sent) > before) =>
             LET h == n.sent[Len(n.sent)].options.authorization
                 tok == tokenRef[n.provider]
                 d == Descriptor(n.provider, n.endpointName)
             IN IF before = 0
                THEN h = IF d.requiresAuth /\ tok.t = "string" /\ tok.s # ""
                         THEN Str("Bearer " \o tok.s) ELSE Absent
                ELSE h = c.sent[1].options.authorization
    ]_vars

\* a retry went out with the token of the first attempt after the token changed
C7_Witness ==
  \E s \in Active :
    /\ Len(calls[s].sent) = 2
    /\ calls[s].sent[2].options.authorization = Str("Bearer t1")
    /\ tokenRef[calls[s].provider] # Str("t1")

(***************************************************************************)
(* C8: a non-2xx response yields {success: false, error, status} with the  *)
(* body's message when present and "API error: <status>" otherwise; a 2xx  *)
(* response yields {success: true, data, status}; a body that does not     *)
(* parse counts as the empty object.                                       *)
(***************************************************************************)
C8_ResponseEnvelope ==
  \A s \in Active :
    LET c == calls[s]
        last == c.seen[Len(c.seen)]
        data == IF last.parses THEN last.body ELSE EmptyObj
        hasMessage == data.t = "object"
                      /\ \E i \in 1..Len(data.keys) : data.keys[i] = "message"
    IN
    (Settled(c) /\ Len(c.seen) >= 1 /\ last.kind = "response") =>
      /\ c.st = "resolved"
      /\ IF Was2xx(c, Len(c.seen))
         THEN c.result = Envelope(TRUE, data, Absent, Num(last.status))
         ELSE c.result =
                Envelope(FALSE, Absent,
                         IF hasMessage THEN Prop(data, "message")
                         ELSE Str("API error: " \o ToString(last.status)),
                         Num(last.status))

(***************************************************************************)
(* C9: on every path, a call that supplies onComplete has the callback     *)
(* invoked with the envelope its promise resolves to.                      *)
(***************************************************************************)
C9_CallbackGetsResult ==
  \A s \in Active :
    LET c == calls[s] IN
    (Settled(c) /\ c.onComplete # "none") =>
      /\ c.st = "resolved"
      /\ \E i \in 1..Len(c.cbLog) : c.cbLog[i] = c.result

(***************************************************************************)
(* C10: a call naming an endpoint that is not in the loaded catalog,       *)
(* including any call through a provider whose YAML failed to parse,       *)
(* returns {success: false, error: 'Endpoint "<name>" not found in         *)
(* configuration'} without validation, cache access or dispatch, and does  *)
(* not throw.  Stated for calls whose onComplete, if any, returns.         *)
(***************************************************************************)
C10_UnknownEndpoint ==
  \A s \in Active :
    LET c == calls[s] IN
    (~InCatalog(c.provider, c.endpointName) /\ c.onComplete # "throws") =>
      /\ c.st = "resolved"
      /\ c.result = NotFoundEnvelope(c.endpointName)
      /\ ~c.validated /\ ~c.cacheRead /\ Len(c.sent) = 0

\* the failure envelope doFetch makes of a transport outcome that is no 2xx
\* response: the rejection's message, or the message of the body (else the
\* status-coded message) with the status
AttemptFailure(o) ==
  LET data == IF o.parses THEN o.body ELSE EmptyObj IN
  IF o.kind = "reject" THEN Failure(o.message)
  ELSE Envelope(FALSE, Absent,
                OrElse(OptProp(data, "message"),
                       Str("API error: " \o ToString(o.status))),
                Num(o.status))

\* the retry count of the endpoint of a call that is in the catalog
RetryCount(c) ==
  LET d == Descriptor(c.provider, c.endpointName) IN
  IF d.retry.t = "number" THEN d.retry.n ELSE 0

(***************************************************************************)
(* C21: when every one of the N+1 network attempts of a retried request    *)
(* fails, the call returns the failure envelope of the last attempt (its   *)
(* error and status), not that of an earlier attempt and not the           *)
(* placeholder "Unknown error"; a call that ended on the validation, mock  *)
(* or cache path has made no attempt at all.                               *)
(***************************************************************************)
C21_LastFailure ==
  \A s \in Active :
    LET c == calls[s] IN
    /\ c.path \in {"invalid", "mock", "cachehit"} => Len(c.sent) = 0
    /\ ( /\ Settled(c) /\ Len(c.seen) >= 1
         /\ RetryCount(c) > 0
         /\ \A i \in 1..Len(c.seen) : ~Was2xx(c, i) )
       => /\ Len(c.seen) = RetryCount(c) + 1
          /\ c.st = "resolved"
          /\ c.result = AttemptFailure(c.seen[Len(c.seen)])
          /\ c.result # Failure("Unknown error")

(***************************************************************************)
(* C22: a call that supplies onComplete has the callback invoked exactly   *)
(* once, after the final outcome is determined: never while the call still *)
(* awaits an attempt (no invocation for an intermediate failed attempt),   *)
(* and a callback that throws is not invoked a second time.                *)
(***************************************************************************)
C22_CallbackOnce ==
  \A s \in Active :
    LET c == calls[s] IN
    (c.onComplete # "none" /\ c.path # "threw") =>
      IF Settled(c) THEN Len(c.cbLog) = 1 ELSE Len(c.cbLog) = 0

(***************************************************************************)
(* C24: no operation removes a key from the cache: a key that was written  *)
(* stays in the cache through every later get, post, put, delete and       *)
(* setToken, whatever their outcome.                                       *)
(***************************************************************************)
C24_NeverEvicted ==
  [][\A k \in DOMAIN apiCache : k \in DOMAIN apiCache']_vars

\* with an entry cached under its key, a POST, PUT or DELETE to the same
\* endpoint name and payload went to the network and succeeded
C24_Witness ==
  \E s \in Active :
    /\ calls[s].method \in {"POST", "PUT", "DELETE"}
    /\ calls[s].st = "resolved"
    /\ calls[s].result.success
    /\ calls[s].path = "network"
    /\ CacheKey(calls[s].endpointName, calls[s].payload) \in DOMAIN apiCache

(***************************************************************************)
(* C25: the cache changes only when a GET call with cache enabled receives *)
(* a 2xx response, and then only under the key of that call's endpoint     *)
(* name and payload; every other step leaves the cache unchanged; and the  *)
(* call that wrote the cache returns a success envelope.                   *)
(***************************************************************************)
C25_CacheWriters ==
  [][ LET wrote(s) ==
            /\ calls'[s].st # "idle"
            /\ calls[s].st # "idle"
            /\ calls'[s].cacheWrites > calls[s].cacheWrites
      IN
      /\ (\A s \in DOMAIN calls : ~wrote(s)) => apiCache' = apiCache
      /\ \A s \in DOMAIN calls :
           wrote(s) =>
             LET n == calls'[s]
                 d == Descriptor(n.provider, n.endpointName)
                 last == n.seen[Len(n.seen)]
             IN
             /\ n.method = "GET"
             /\ n.useCache \/ d.cache
             /\ Was2xx(n, Len(n.seen))
             /\ apiCache' = CachePut(apiCache, CacheKey(n.endpointName, n.payload),
                                     IF last.parses THEN last.body ELSE EmptyObj)
             /\ n.st = "resolved"
             /\ n.result.success
    ]_vars

(***************************************************************************)
(* C30: the HTTP method of every attempt, the placement of the payload     *)
(* (query string for GET and DELETE, JSON body for POST and PUT) and the   *)
(* use of the cache follow the verb function that was called; the method   *)
(* field of the endpoint descriptor plays no part, and a call whose verb   *)
(* differs from it is dispatched like any other.                           *)
(***************************************************************************)
C30_VerbDecides ==
  \A s \in Active :
    LET c == calls[s]
        d == Descriptor(c.provider, c.endpointName)
    IN
    /\ c.cacheRead => c.method = "GET"
    /\ c.cacheWrites > 0 => c.method = "GET"
    /\ \A i \in 1..Len(c.sent) :
         /\ c.sent[i].options.method = c.method
         /\ c.sent[i].url = IF c.method \in {"GET", "DELETE"}
                            THEN buildUrl(d.url, c.payload) ELSE d.url
         /\ c.sent[i].options.body = IF c.method \in {"POST", "PUT"}
                                     THEN JSONStringify(c.payload) ELSE Absent
    /\ ( /\ InCatalog(c.provider, c.endpointName)
         /\ PayloadValid(c, d)
         /\ ~c.useMock /\ ~d.mock
         /\ ~(c.method = "GET" /\ (c.useCache \/ d.cache) /\ Truthy(c.cachedAtCall)) )
       => Len(c.sent) >= 1

\* a POST with a payload went out, as POST and with the payload as its body,
\* to an endpoint that the catalog declares with method GET
C30_Witness ==
  \E s \in Active :
    /\ calls[s].method = "POST"
    /\ calls[s].payload = Obj(<<"id">>, <<Num(1)>>)
    /\ Len(calls[s].sent) >= 1
    /\ InCatalog(calls[s].provider, calls[s].endpointName)
    /\ Descriptor(calls[s].provider, calls[s].endpointName).method = "GET"
    /\ calls[s].sent[1].options.method = "POST"
    /\ calls[s].sent[1].options.body # Absent

\* call s is issued in this step
Issued(s) == calls[s].st = "idle" /\ calls'[s].st # "idle"

\* call s is a GET that uses the cache, not mocked, with a valid payload, to
\* an endpoint of the catalog
CachedGet(c) ==
  /\ InCatalog(c.provider, c.endpointName)
  /\ c.method = "GET"
  /\ c.useCache \/ Descriptor(c.provider, c.endpointName).cache
  /\ ~c.useMock /\ ~Descriptor(c.provider, c.endpointName).mock
  /\ PayloadValid(c, Descriptor(c.provider, c.endpointName))

\* the Authorization header made of a token
Bearer(token) == IF Truthy(token) THEN Str("Bearer " \o token.s) ELSE Absent

(***************************************************************************)
(* C23: a cache-enabled GET issued while the cache holds nothing under its *)
(* key is dispatched to the network even when another call with the same   *)
(* endpoint name and payload is in flight; when such a call resolves       *)
(* successfully the entry under its key is the data of its response,       *)
(* whatever an earlier call wrote there, so that after two such calls the  *)
(* entry is that of the one that resolved last; a step changes no entry    *)
(* other than the one under the key of the call that received a response,  *)
(* and a cache hit returns the entry under the call's own key.             *)
(***************************************************************************)
C23_LastWriterWins ==
  [][ /\ \A s \in DOMAIN calls :
           LET n == calls'[s]
               key == CacheKey(n.endpointName, n.payload)
           IN
           /\ (Issued(s) /\ CachedGet(n) /\ ~Truthy(CacheGet(apiCache, key)))
                => n.st = "fetching" /\ Len(n.sent) = 1
           /\ (Issued(s) /\ CachedGet(n) /\ Truthy(CacheGet(apiCache, key)))
                => /\ Len(n.sent) = 0
                   /\ n.st = "resolved" => n.result.data = apiCache[key]
           /\ ( /\ calls[s].st = "fetching" /\ n.st = "resolved"
                /\ n.result.success /\ CachedGet(n) )
                => /\ key \in DOMAIN apiCache'
                   /\ apiCache'[key] = n.result.data
      /\ \A k \in DOMAIN apiCache' :
           (k \notin DOMAIN apiCache \/ apiCache'[k] # apiCache[k]) =>
             \E s \in DOMAIN calls :
               /\ calls[s].st = "fetching"
               /\ calls'[s] # calls[s]
               /\ calls[s].method = "GET"
               /\ k = CacheKey(calls[s].endpointName, calls[s].payload)
    ]_vars

\* two cache-enabled GETs of the same key were in flight together; the one
\* that resolved last received other data than the first, and the cache holds
\* the data of the last
C23_Witness ==
  \E s \in Active :
    LET c == calls[s]
        key == CacheKey(c.endpointName, c.payload)
        first == <<c.endpointName, Template(JSONStringify(c.payload))>>
    IN
    /\ CachedGet(c)
    /\ c.st = "resolved" /\ c.result.success /\ c.path = "network"
    /\ c.priorOk = Absent
    /\ first \in DOMAIN firstOk
    /\ firstOk[first] # c.result.data
    /\ apiCache[key] = c.result.data

Arr(items) == [t |-> "array", items |-> items]

\* a File picked in the file dialog
File(name, type, size) == [t |-> "file", name |-> name, type |-> type, size |-> size]

\* the value {from, to} of the two inputs of a dateRange
Range(from, to) == Obj(<<"from", "to">>, <<Str(from), Str(to)>>)

\* s.length of the strings typed into the widgets
Length(s) == Len(s)

\* Number(s) of the strings typed into the widgets: NaN, or an integer
NumberOf(s) ==
  CASE s = "" -> [nan |-> FALSE, n |-> 0]
    [] s = "7" -> [nan |-> FALSE, n |-> 7]
    [] s = "12" -> [nan |-> FALSE, n |-> 12]
    [] OTHER -> [nan |-> TRUE, n |-> 0]

\* the place of a string in the order of JS string comparison (code units),
\* for the strings compared by the date rules
StrRank(s) ==
  CASE s = "" -> 0
    [] s = "2024-01-01" -> 1
    [] s = "2024-01-10" -> 2
    [] s = "2024-02-01" -> 3
    [] s = "2024-03-01" -> 4

\* a strict comparison of the date strings: equal dates are out of order
StrLE_Strict(a, b) == StrRank(a) < StrRank(b)

\* a <= b on strings
StrLE(a, b) == StrRank(a) <= StrRank(b)

\* new RegExp(pattern) throws a SyntaxError
RegExpThrows(pattern) == pattern = "("

\* new RegExp(pattern).test(s) on the strings typed into the widgets
RegExpTest(pattern, s) ==
  CASE pattern = "^[0-9]+$" -> s \in {"7", "12"}
    [] pattern = "^a" -> s \in {"ab", "abcd", "a@b.co"}
    [] OTHER -> FALSE

\* /^[^@\s]+@[^@\s]+\.[^@\s]+$/.test(s), the email pattern of getValidationRules
FieldEmailTest(s) == s \in {"a@b.co"}

\* the email check of z.string().email()
ZodEmailTest(s) == s \in {"a@b.co"}

(***************************************************************************)
(* FormBuilder: the form configuration.                                    *)
(***************************************************************************)
\* errorMessages of a validation block; "" stands for a message not configured
NoMessages ==
  [required |-> "", email |-> "", minLength |-> "", maxLength |-> "",
   pattern |-> "", onlyInteger |-> "", greaterThanOrEqualTo |-> "",
   lessThanOrEqualTo |-> "", minDate |-> "", maxDate |-> "",
   allowedFormats |-> "", range |-> ""]

\* control.validations || {}: a block that declares no rule.  A length or a
\* numeric limit of 0 stands for one that is not declared: the code enforces
\* neither (minLength > 0, greaterThanOrEqualTo !== 0)
NoValidations ==
  [required |-> FALSE, email |-> FALSE, minLength |-> 0, maxLength |-> 0,
   pattern |-> "", numericality |-> FALSE, onlyInteger |-> FALSE,
   greaterThanOrEqualTo |-> 0, lessThanOrEqualTo |-> 0,
   minDate |-> "", maxDate |-> "",
   hasAllowedFormats |-> FALSE, allowedFormats |-> << >>,
   errorMessages |-> NoMessages]

\* a Control descriptor
Control(name, htmlControl, inputType, validations) ==
  [name |-> name, htmlControl |-> htmlControl, inputType |-> inputType,
   multiple |-> FALSE, initialValue |-> Undefined, selectOptions |-> << >>,
   buttonClickAction |-> "", validations |-> validations]

\* the button that submits the form
SubmitButton ==
  [Control("send", "button", "", NoValidations) EXCEPT !.buttonClickAction = "complete"]

\* an option of a choice widget: key and label, as the YAML declares it
Option(key, label) == [key |-> key, label |-> label]

\* the forms handed to FormBuilder, by the name of their YAML text: the
\* formControls of the (first) form group
FormControls(doc) ==
  CASE doc = "login" ->
         << Control("username", "input", "text",
              [NoValidations EXCEPT !.required = TRUE, !.minLength = 3]),
            SubmitButton >>
    [] doc = "contact" ->
         << Control("email", "input", "email",
              [NoValidations EXCEPT !.required = TRUE, !.email = TRUE, !.pattern = "^a",
                 !.errorMessages = [NoMessages EXCEPT !.required = "Email needed"]]),
            SubmitButton >>
    [] doc = "age" ->
         << Control("age", "input", "number",
              [NoValidations EXCEPT !.numericality = TRUE, !.onlyInteger = TRUE,
                 !.greaterThanOrEqualTo = 1, !.lessThanOrEqualTo = 10]),
            SubmitButton >>
    [] doc = "trip" ->
         << Control("stay", "dateRange", "", NoValidations),
            Control("dob", "input", "date",
              [NoValidations EXCEPT !.minDate = "2024-01-10", !.maxDate = "2024-02-01"]),
            SubmitButton >>
    [] doc = "tour" ->
         << Control("stay", "dateRange", "",
              [NoValidations EXCEPT !.required = TRUE,
                 !.errorMessages = [NoMessages EXCEPT !.range = "Bad range"]]),
            SubmitButton >>
    [] doc = "upload" ->
         << Control("avatar", "file", "",
              [NoValidations EXCEPT !.required = TRUE, !.hasAllowedFormats = TRUE,
                 !.allowedFormats = <<"image/png">>]),
            Control("cv", "file", "", NoValidations),
            SubmitButton >>
    [] doc = "gallery" ->
         << [Control("photos", "file", "",
               [NoValidations EXCEPT !.hasAllowedFormats = TRUE,
                  !.allowedFormats = <<"image/png">>]) EXCEPT !.multiple = TRUE],
            [Control("extras", "file", "", NoValidations) EXCEPT !.multiple = TRUE],
            SubmitButton >>
    [] doc = "album" ->
         << [Control("scans", "file", "",
               [NoValidations EXCEPT !.required = TRUE]) EXCEPT !.multiple = TRUE],
            SubmitButton >>
    [] doc = "choices" ->
         << [Control("size", "select", "", NoValidations) EXCEPT
               !.selectOptions = <<Option("10", "Ten"), Option("2", "Two"),
                                   Option("s", "Small")>>],
            [Control("color", "radio", "",
               [NoValidations EXCEPT !.required = TRUE]) EXCEPT
               !.selectOptions = <<Option("red", "Red"), Option("blue", "Blue")>>],
            [Control("tags", "checkbox", "", NoValidations) EXCEPT
               !.selectOptions = <<Option("b", "B"), Option("3", "Three"),
                                   Option("1", "One")>>],
            SubmitButton >>
    [] doc = "terms" ->
         << [Control("agree", "checkbox", "",
               [NoValidations EXCEPT !.required = TRUE]) EXCEPT
               !.selectOptions = <<Option("yes", "Yes"), Option("news", "News")>>,
               !.initialValue = Arr(<<"yes">>)],
            SubmitButton >>
    [] doc = "widget" ->
         << Control("slider", "slider", "",
              [NoValidations EXCEPT !.required = TRUE]),
            Control("note", "input", "text", NoValidations),
            SubmitButton >>
    [] doc = "gadget" ->
         << Control("knob", "knob", "", NoValidations),
            SubmitButton >>
    [] doc = "plain" ->
         << [Control("note", "textarea", "", NoValidations) EXCEPT
               !.initialValue = Str("ab")],
            Control("pin", "input", "password",
              [NoValidations EXCEPT !.pattern = "(", !.maxLength = 3]),
            SubmitButton >>
    [] doc = "signup" ->
         << Control("code", "input", "text",
              [NoValidations EXCEPT
                 !.minLength = 3, !.maxLength = 3, !.email = TRUE,
                 !.pattern = "^[0-9]+$", !.numericality = TRUE,
                 !.onlyInteger = TRUE, !.lessThanOrEqualTo = 10,
                 !.errorMessages = [NoMessages EXCEPT !.maxLength = "Too long",
                                                      !.onlyInteger = "Digits only"]]),
            Control("password", "input", "password",
              [NoValidations EXCEPT !.required = TRUE]),
            Control("confirm", "input", "password", NoValidations),
            SubmitButton >>
    [] OTHER -> << >>

\* the YAML texts that declare a form with controls
Forms ==
  {"login", "contact", "age", "trip", "tour", "upload", "gallery", "album",
   "choices", "terms", "widget", "gadget", "plain", "signup"}

\* the YAML texts handed to FormBuilder as yamlConfig
FormYamlDocs ==
  Forms \cup {"malformed", "empty", "null", "scalar", "list", "noFormGroup",
              "groupList", "emptyGroupList"}

\* yaml.load(yamlConfig) in FormBuilder: a thrown YAMLException, or the loaded
\* document; of an object, the formGroup member and the groups it holds
FormYamlLoad(doc) ==
  CASE doc = "malformed" -> [threw |-> TRUE, value |-> Undefined]
    [] doc = "empty" -> [threw |-> FALSE, value |-> Undefined]
    [] doc = "null" -> [threw |-> FALSE, value |-> Null]
    [] doc = "scalar" -> [threw |-> FALSE, value |-> Str("hello")]
    [] doc = "list" ->
         [threw |-> FALSE,
          value |-> [t |-> "array", formGroup |-> "undefined", groups |-> << >>]]
    [] doc = "noFormGroup" ->
         [threw |-> FALSE,
          value |-> [t |-> "object", formGroup |-> "undefined", groups |-> << >>]]
    [] doc = "groupList" ->
         [threw |-> FALSE,
          value |-> [t |-> "object", formGroup |-> "array",
                     groups |-> << [formControls |-> FormControls("login")],
                                   [formControls |-> FormControls("age")] >>]]
    [] doc = "emptyGroupList" ->
         [threw |-> FALSE,
          value |-> [t |-> "object", formGroup |-> "array", groups |-> << >>]]
    [] OTHER ->
         [threw |-> FALSE,
          value |-> [t |-> "object", formGroup |-> "object",
                     groups |-> << [formControls |-> FormControls(doc)] >>]]

\* the strings a user types or picks in a text, textarea or password widget
TextValues == {"", "ab", "abcd", "a@b.co", "7", "12"}

\* the strings a date input yields
DateValues == {"", "2024-01-01", "2024-01-10", "2024-03-01"}

\* the files of the file dialog
\* a function value: what setValue is handed by handleRemoveFile
Function == [t |-> "function"]

\* file.type.startsWith("image/") on the MIME types of the selections
StartsWithImage(type) == type \in {"image/png"}

Png == File("a.png", "image/png", 1)

Pdf == File("b.pdf", "application/pdf", 2)

\* the selections a file dialog hands over (e.target.files)
FileSelections ==
  { << >>, <<Png>>, <<Pdf>>, <<Png, Pdf>>, <<Pdf, Png>>, <<Png, Png>> }

(***************************************************************************)
(* FormBuilder: render, default values and the two validators.             *)
(***************************************************************************)
\* controls = formGroup?.formControls || [], formGroup being config.formGroup
\* or, of an array, its first element
ControlsOf(cfg) ==
  IF cfg.t \notin {"object", "array"} THEN << >>
  ELSE IF cfg.formGroup = "undefined" THEN << >>
  ELSE IF cfg.groups = << >> THEN << >>
  ELSE cfg.groups[1].formControls

\* the render of FormBuilder: the "Error parsing YAML" message when yaml.load
\* throws, a TypeError out of the component when the document is undefined or
\* null (config.formTitle), else the form of the controls
RenderForm(doc) ==
  LET r == FormYamlLoad(doc) IN
  IF r.threw THEN [kind |-> "parseError", controls |-> << >>]
  ELSE IF r.value.t \in {"undefined", "null"} THEN [kind |-> "threw", controls |-> << >>]
  ELSE [kind |-> "form", controls |-> ControlsOf(r.value)]

\* the names of the controls, in their order
ControlNames(controls) == {controls[i].name : i \in 1..Len(controls)}

\* the control of that name
ControlNamed(controls, name) ==
  controls[CHOOSE i \in 1..Len(controls) : controls[i].name = name]

\* defaultValues: [] or the initial array of a checkbox, else initialValue || ""
defaultValues(controls) ==
  [name \in ControlNames(controls) |->
     LET c == ControlNamed(controls, name) IN
     IF c.htmlControl = "checkbox"
     THEN (IF c.initialValue.t = "array" THEN c.initialValue ELSE Arr(<< >>))
     ELSE OrElse(c.initialValue, Str(""))]

\* the form values once the widgets are registered: the two inputs of a
\* dateRange register as <name>.from and <name>.to and make its value the
\* object of their values; every other control keeps its default value
RegisteredValues(controls) ==
  [name \in ControlNames(controls) |->
     LET c == ControlNamed(controls, name)
         d == defaultValues(controls)[name] IN
     IF c.htmlControl = "dateRange" /\ d.t # "object" THEN Range("", "") ELSE d]

\* a || b on message strings
MsgOr(a, b) == IF a # "" THEN a ELSE b

\* getValidationRules(control): the rule set handed to register
getValidationRules(control) ==
  LET v == control.validations
      msgs == v.errorMessages
      none == [has |-> FALSE, value |-> 0, message |-> ""]
      emailPattern == [has |-> TRUE, regex |-> "email",
                       message |-> MsgOr(msgs.email, "Invalid email address.")]
      noPattern == [has |-> FALSE, regex |-> "", message |-> ""]
      afterEmail == IF v.email THEN emailPattern ELSE noPattern
  IN
  [required |-> IF v.required THEN MsgOr(msgs.required, "This field is required.")
                ELSE "",
   pattern |-> IF v.pattern # "" /\ ~RegExpThrows(v.pattern)
               THEN [has |-> TRUE, regex |-> v.pattern,
                     message |-> MsgOr(msgs.pattern, "Invalid format.")]
               ELSE afterEmail,
   minLength |-> IF v.minLength > 0
                 THEN [has |-> TRUE, value |-> v.minLength,
                       message |-> MsgOr(msgs.minLength,
                          "Minimum length is " \o ToString(v.minLength))]
                 ELSE none,
   maxLength |-> IF v.maxLength > 0
                 THEN [has |-> TRUE, value |-> v.maxLength,
                       message |-> MsgOr(msgs.maxLength,
                          "Maximum length is " \o ToString(v.maxLength))]
                 ELSE none,
   onlyInteger |-> IF v.numericality /\ v.onlyInteger
                   THEN [has |-> TRUE, value |-> 0,
                         message |-> MsgOr(msgs.onlyInteger, "Must be an integer.")]
                   ELSE none,
   greaterThanOrEqualTo |->
       IF v.numericality /\ v.greaterThanOrEqualTo # 0
       THEN [has |-> TRUE, value |-> v.greaterThanOrEqualTo,
             message |-> MsgOr(msgs.greaterThanOrEqualTo,
                "Must be >= " \o ToString(v.greaterThanOrEqualTo))]
       ELSE none,
   lessThanOrEqualTo |->
       IF v.numericality /\ v.lessThanOrEqualTo # 0
       THEN [has |-> TRUE, value |-> v.lessThanOrEqualTo,
             message |-> MsgOr(msgs.lessThanOrEqualTo,
                "Must be <= " \o ToString(v.lessThanOrEqualTo))]
       ELSE none]

\* the messages of the rules of a rule set that a string value fails, in the
\* order the form library evaluates them: required on an empty value; the
\* length and pattern rules on a non-empty value; the validate functions always
RuleErrors(rules, s) ==
  LET n == NumberOf(s)
      Fails(failed, msg) == IF failed THEN <<msg>> ELSE << >>
  IN
  Fails(rules.required # "" /\ s = "", rules.required)
    \o Fails(rules.maxLength.has /\ s # "" /\ Length(s) > rules.maxLength.value,
             rules.maxLength.message)
    \o Fails(rules.minLength.has /\ s # "" /\ Length(s) < rules.minLength.value,
             rules.minLength.message)
    \o Fails(rules.pattern.has /\ s # ""
               /\ ~(IF rules.pattern.regex = "email" THEN FieldEmailTest(s)
                    ELSE RegExpTest(rules.pattern.regex, s)),
             rules.pattern.message)
    \o Fails(rules.onlyInteger.has /\ n.nan, rules.onlyInteger.message)
    \o Fails(rules.greaterThanOrEqualTo.has
               /\ ~(~n.nan /\ n.n >= rules.greaterThanOrEqualTo.value),
             rules.greaterThanOrEqualTo.message)
    \o Fails(rules.lessThanOrEqualTo.has
               /\ ~(~n.nan /\ n.n <= rules.lessThanOrEqualTo.value),
             rules.lessThanOrEqualTo.message)

\* the type name the schema library reports for a value of the wrong type
ZodTypeName(value) ==
  CASE value.t = "file" -> "object"
    [] value.t = "absent" -> "undefined"
    [] OTHER -> value.t

\* an issue of the schema validator: the path of the value and the message
Issue(path, message) == [path |-> path, message |-> message]

\* the invalid_type issue of a schema that expects another type
InvalidType(path, expected, value) ==
  << Issue(path, "Expected " \o expected \o ", received " \o ZodTypeName(value)) >>

\* the issues of one check: its message when the check fails
Check(failed, path, message) == IF failed THEN << Issue(path, message) >> ELSE << >>

\* the string field buildZodSchema builds for a control, applied to string s:
\* the checks chained on z.string(); for a date input or a dateRange the field
\* is replaced by the date field; the numeric refinements come last
StringField(control, s) ==
  LET v == control.validations
      msgs == v.errorMessages
      name == control.name
      n == NumberOf(s)
      chained ==
        Check(v.required /\ Length(s) < 1, name,
              MsgOr(msgs.required, "This field is required"))
        \o Check(v.minLength > 0 /\ Length(s) < v.minLength, name,
              MsgOr(msgs.minLength, "Minimum length is " \o ToString(v.minLength)))
        \o Check(v.maxLength > 0 /\ Length(s) > v.maxLength, name,
              MsgOr(msgs.maxLength, "Maximum length is " \o ToString(v.maxLength)))
        \o Check(v.email /\ ~ZodEmailTest(s), name,
              MsgOr(msgs.email, "Invalid email address"))
        \o Check(v.pattern # "" /\ ~RegExpThrows(v.pattern)
                   /\ ~RegExpTest(v.pattern, s), name,
              MsgOr(msgs.pattern, "Invalid format"))
      dateField ==
        Check(~(~v.required \/ s # ""), name,
              MsgOr(msgs.required, "This field is required"))
        \o Check(v.minDate # "" /\ ~(s = "" \/ StrLE(v.minDate, s)), name,
              MsgOr(msgs.minDate, "Date must be after " \o v.minDate))
        \o Check(v.maxDate # "" /\ ~(s = "" \/ StrLE(s, v.maxDate)), name,
              MsgOr(msgs.maxDate, "Date must be before " \o v.maxDate))
      numeric ==
        Check(v.numericality /\ v.onlyInteger /\ n.nan, name,
              MsgOr(msgs.onlyInteger, "Must be an integer"))
        \o Check(v.numericality /\ v.greaterThanOrEqualTo # 0
                   /\ ~(~n.nan /\ n.n >= v.greaterThanOrEqualTo), name,
              MsgOr(msgs.greaterThanOrEqualTo,
                    "Must be >= " \o ToString(v.greaterThanOrEqualTo)))
        \o Check(v.numericality /\ v.lessThanOrEqualTo # 0
                   /\ ~(~n.nan /\ n.n <= v.lessThanOrEqualTo), name,
              MsgOr(msgs.lessThanOrEqualTo,
                    "Must be <= " \o ToString(v.lessThanOrEqualTo)))
  IN
  (IF control.inputType = "date" \/ control.htmlControl = "dateRange"
   THEN dateField ELSE chained) \o numeric

\* v.allowedFormats.includes(file.type)
FormatAllowed(v, file) ==
  \E i \in 1..Len(v.allowedFormats) : v.allowedFormats[i] = file.type

\* the schema of a checkbox group: z.array(z.string()), at least one when required
CheckboxField(control, value) ==
  LET v == control.validations IN
  IF value.t # "array" THEN InvalidType(control.name, "array", value)
  ELSE Check(v.required /\ Len(value.items) < 1, control.name,
             MsgOr(v.errorMessages.required, "At least one option must be selected"))

\* the schema of a multi-file control: z.array(z.any()) with the format
\* refinement, then the required refinement
FilesField(control, value) ==
  LET v == control.validations
      files == value.items
      empty == Len(files) = 0
      ok == IF v.required /\ empty THEN FALSE
            ELSE IF empty THEN TRUE
            ELSE IF v.hasAllowedFormats
            THEN \A i \in 1..Len(files) : FormatAllowed(v, files[i])
            ELSE TRUE
  IN
  IF value.t # "array" THEN InvalidType(control.name, "array", value)
  ELSE Check(~ok, control.name,
             MsgOr(v.errorMessages.allowedFormats, "Invalid file format"))
       \o Check(v.required /\ ~(Len(files) > 0), control.name,
             MsgOr(v.errorMessages.required, "At least one file is required"))

\* the schema of a single-file control: z.any() with the format refinement,
\* then the required refinement
FileField(control, value) ==
  LET v == control.validations
      ok == IF v.required /\ ~Truthy(value) THEN FALSE
            ELSE IF ~Truthy(value) THEN TRUE
            ELSE IF v.hasAllowedFormats
            THEN value.t = "file" /\ FormatAllowed(v, value)
            ELSE TRUE
  IN
  Check(~ok, control.name,
        MsgOr(v.errorMessages.allowedFormats, "Invalid file format"))
  \o Check(v.required /\ ~Truthy(value), control.name,
        MsgOr(v.errorMessages.required, "File is required"))

\* the schema of a dateRange: an object whose from and to must be non-empty
\* strings, refined by from <= to when both are there, the issue put on "to"
RangeField(control, value) ==
  LET v == control.validations
      from == Prop(value, "from")
      to == Prop(value, "to")
      side(x, path, default) ==
        IF x.t # "string" THEN InvalidType(path, "string", x)
        ELSE Check(~Truthy(x), path, MsgOr(v.errorMessages.required, default))
      typed == from.t = "string" /\ to.t = "string"
      inOrder == IF ~Truthy(from) \/ ~Truthy(to) THEN TRUE ELSE StrLE(from.s, to.s)
  IN
  IF value.t # "object" THEN InvalidType(control.name, "object", value)
  ELSE side(from, control.name \o ".from", "Start date is required")
       \o side(to, control.name \o ".to", "End date is required")
       \o (IF typed
           THEN Check(~inOrder, control.name \o ".to",
                      MsgOr(v.errorMessages.range, "End date must be after start date"))
           ELSE << >>)

\* the member of the schema buildZodSchema makes for a control, applied to a
\* value: the issues it raises; a button has no member
FieldIssues(control, value) ==
  CASE control.htmlControl = "button" -> << >>
    [] control.htmlControl = "checkbox" -> CheckboxField(control, value)
    [] control.htmlControl = "file" /\ control.multiple -> FilesField(control, value)
    [] control.htmlControl = "file" /\ ~control.multiple -> FileField(control, value)
    [] control.htmlControl = "dateRange" -> RangeField(control, value)
    [] OTHER -> IF value.t # "string" THEN InvalidType(control.name, "string", value)
                ELSE StringField(control, value.s)

RECURSIVE SchemaIssues(_, _, _)
\* the issues dynamicSchema raises on the form values, control by control from i on
SchemaIssues(controls, values, i) ==
  IF i > Len(controls) THEN << >>
  ELSE FieldIssues(controls[i], values[controls[i].name])
         \o SchemaIssues(controls, values, i + 1)

\* a resolver that reports the last issue of a path instead of the first
buildZodSchema_LastIssue(controls, values) ==
  LET issues == SchemaIssues(controls, values, 1)
      paths == {issues[i].path : i \in 1..Len(issues)}
      last(path) == CHOOSE i \in 1..Len(issues) :
                      /\ issues[i].path = path
                      /\ \A j \in (i + 1)..Len(issues) : issues[j].path # path
  IN
  [errors |-> [path \in paths |-> issues[last(path)].message],
   data |-> [name \in {controls[i].name : i \in {j \in 1..Len(controls) :
                          controls[j].htmlControl # "button"}} |-> values[name]]]

\* buildZodSchema(controls) run by the resolver on the form values: the errors,
\* one message per path (that of the first issue on the path), and the parsed
\* data, which holds the members of the schema only
buildZodSchema(controls, values) ==
  LET issues == SchemaIssues(controls, values, 1)
      paths == {issues[i].path : i \in 1..Len(issues)}
      first(path) == CHOOSE i \in 1..Len(issues) :
                       /\ issues[i].path = path
                       /\ \A j \in 1..(i - 1) : issues[j].path # path
  IN
  [errors |-> [path \in paths |-> issues[first(path)].message],
   data |-> [name \in {controls[i].name : i \in {j \in 1..Len(controls) :
                          controls[j].htmlControl # "button"}} |-> values[name]]]

\* the array index a property key denotes, or -1 when the key is no array index
ArrayIndex(key) ==
  CASE key = "1" -> 1
    [] key = "2" -> 2
    [] key = "3" -> 3
    [] key = "10" -> 10
    [] OTHER -> -1

\* Object.entries(control.selectOptions): the keys that are array indices come
\* first in ascending numeric order, then the other keys in the order in which
\* they were added to the object, which is the order of the YAML
ObjectEntries(options) ==
  LET n == Len(options)
      idx(i) == ArrayIndex(options[i].key)
      before(i, j) ==
        \/ idx(i) >= 0 /\ idx(j) < 0
        \/ idx(i) >= 0 /\ idx(j) >= 0 /\ idx(i) < idx(j)
        \/ idx(i) < 0 /\ idx(j) < 0 /\ i < j
      place(i) == 1 + Cardinality({j \in 1..n : before(j, i)})
  IN [k \in 1..n |-> options[CHOOSE i \in 1..n : place(i) = k]]

\* the options of a select, radio or checkbox control as rendered, in order
RenderedOptions(control) == ObjectEntries(control.selectOptions)

\* the widget renderedControls emits for a control: "none" for an unknown kind
Widget(control) ==
  IF control.htmlControl \in {"textarea", "select", "radio", "checkbox",
                              "dateRange", "file", "button", "input"}
  THEN control.htmlControl ELSE "none"

(***************************************************************************)
(* FormBuilder: the state machine of one mounted form.                     *)
(***************************************************************************)
\* the paths of the form state that belong to a control
PathsOf(name) == {name, name \o ".from", name \o ".to"}

\* mode "onChange": after an edit of control name the resolver runs and the
\* errors of that control are replaced by what it reports for it
Revalidate(name, values) ==
  LET r == buildZodSchema(rendered.controls, values).errors
      keep == DOMAIN formErrors \ PathsOf(name)
      new == DOMAIN r \cap PathsOf(name)
  IN [path \in keep \cup new |-> IF path \in new THEN r[path] ELSE formErrors[path]]

\* what a submit attempt did: nothing yet, blocked, or completed with the
\* objects handed to onFormComplete
NotSubmitted == [st |-> "none", calls |-> << >>]

\* FormBuilder is mounted with a YAML text; the API service is not in use
FormInit ==
  /\ yamlConfig \in FormYamlDocs
  /\ rendered = RenderForm(yamlConfig)
  /\ formValues = RegisteredValues(rendered.controls)
  /\ formErrors = [path \in {} |-> ""]
  /\ submitted = NotSubmitted
  /\ filePreviews = [k \in {} |-> Null]
  /\ showPassword = FALSE
  /\ config = [p \in Mounted |-> Null]
  /\ tokenRef = [p \in Mounted |-> Undefined]
  /\ apiCache = [k \in {} |-> Undefined]
  /\ calls = [s \in Slots |-> IdleCall]
  /\ nCalls = 0
  /\ firstOk = [k \in {} |-> Undefined]

\* the controls of the rendered form that satisfy a condition on their index
Rendered(i) == rendered.kind = "form" /\ i \in 1..Len(rendered.controls)

\* the form value of a control becomes value; the edit clears the record of
\* the last submit attempt
SetValue(name, value, validate) ==
  /\ formValues' = [formValues EXCEPT ![name] = value]
  /\ formErrors' = IF validate
                   THEN Revalidate(name, [formValues EXCEPT ![name] = value])
                   ELSE formErrors
  /\ submitted' = NotSubmitted
  /\ UNCHANGED <<yamlConfig, rendered, showPassword>>
  /\ UNCHANGED apiVars

\* the strings the widget of a control can hold
WidgetValues(control) ==
  CASE Widget(control) = "textarea" -> TextValues
    [] Widget(control) = "input" /\ control.inputType = "date" -> DateValues
    [] Widget(control) = "input" /\ control.inputType # "date" -> TextValues
    [] Widget(control) = "select" ->
         {""} \cup {control.selectOptions[i].key : i \in 1..Len(control.selectOptions)}
    [] Widget(control) = "radio" ->
         {control.selectOptions[i].key : i \in 1..Len(control.selectOptions)}
    [] OTHER -> {}

\* the user types into, or picks an option of, the widget of control i
Change(i, s) ==
  /\ Rendered(i)
  /\ s \in WidgetValues(rendered.controls[i])
  /\ SetValue(rendered.controls[i].name, Str(s), TRUE)
  /\ UNCHANGED filePreviews

\* the user ticks or unticks option k of checkbox group i: the value is the
\* array of the ticked options in the order of the rendered boxes
Tick(i, k) ==
  /\ Rendered(i)
  /\ Widget(rendered.controls[i]) = "checkbox"
  /\ k \in 1..Len(rendered.controls[i].selectOptions)
  /\ LET c == rendered.controls[i]
         boxes == RenderedOptions(c)
         old == formValues[c.name].items
         was == {old[j] : j \in 1..Len(old)}
         now == IF boxes[k].key \in was THEN was \ {boxes[k].key}
                ELSE was \cup {boxes[k].key}
         ticked == SelectSeq([j \in 1..Len(boxes) |-> boxes[j].key],
                             LAMBDA key : key \in now)
     IN SetValue(c.name, Arr(ticked), TRUE)
  /\ UNCHANGED filePreviews

\* the user sets one of the two dates of dateRange i
ChangeRange(i, side, s) ==
  /\ Rendered(i)
  /\ Widget(rendered.controls[i]) = "dateRange"
  /\ s \in DateValues
  /\ LET c == rendered.controls[i]
         old == formValues[c.name]
     IN SetValue(c.name,
                 IF side = "from" THEN Obj(<<"from", "to">>, <<Str(s), Prop(old, "to")>>)
                 ELSE Obj(<<"from", "to">>, <<Prop(old, "from"), Str(s)>>),
                 TRUE)
  /\ UNCHANGED filePreviews

\* the preview made of a selected file: a local URL for an image only
PreviewOf(file) ==
  [t |-> "preview",
   url |-> IF StartsWithImage(file.type) THEN "blob:" \o file.name ELSE "",
   name |-> file.name, type |-> file.type, size |-> file.size]

\* setFilePreviews((prev) => ({...prev, [name]: value}))
SetPreview(name, value) ==
  filePreviews' = [k \in DOMAIN filePreviews \cup {name} |->
                     IF k = name THEN value ELSE filePreviews[k]]

\* filePreviews[name], undefined before the first selection
PreviewState(name) ==
  IF name \in DOMAIN filePreviews THEN filePreviews[name] ELSE Undefined

\* arr.splice(index, 1) on a copy of the sequence: index counts from 0
Splice(arr, index) ==
  [j \in 1..(Len(arr) - 1) |-> IF j <= index THEN arr[j] ELSE arr[j + 1]]

\* onChange of the file input of control i: the array of the files of a
\* multi-file control, the first file or null of a single-file control, and
\* the previews made of them
SelectFiles(i, files) ==
  /\ Rendered(i)
  /\ Widget(rendered.controls[i]) = "file"
  /\ LET c == rendered.controls[i] IN
     /\ SetValue(c.name,
                 IF c.multiple THEN Arr(files)
                 ELSE IF Len(files) > 0 THEN files[1] ELSE Null,
                 FALSE)
     /\ SetPreview(c.name,
                   IF c.multiple
                   THEN Arr([j \in 1..Len(files) |-> PreviewOf(files[j])])
                   ELSE IF Len(files) > 0 THEN PreviewOf(files[1]) ELSE Null)

\* handleRemoveFile(fieldName, index) from the remove button of a preview of
\* control i; index -1 stands for the call without index, from the button of
\* the preview of a single file.  With an index, setValue is handed an
\* updater function, which the form library stores as the value of the field
\* (it calls no updater); the previews lose the element at the index.
handleRemoveFile(i, index) ==
  /\ Rendered(i)
  /\ Widget(rendered.controls[i]) = "file"
  /\ LET c == rendered.controls[i]
         shown == PreviewState(c.name)
     IN
     IF index >= 0
     THEN /\ shown.t = "array" /\ index < Len(shown.items)
          /\ SetValue(c.name, Function, FALSE)
          /\ SetPreview(c.name, Arr(Splice(shown.items, index)))
     ELSE /\ shown.t = "preview"
          /\ SetValue(c.name, Null, FALSE)
          /\ SetPreview(c.name, Null)

\* the type attribute of the input of a password control
PasswordInputType(control, show) == IF show THEN "text" ELSE "password"

\* the button of the password widget of control i is pressed:
\* setShowPassword((v) => !v)
TogglePassword(i) ==
  /\ Rendered(i)
  /\ Widget(rendered.controls[i]) = "input"
  /\ rendered.controls[i].inputType = "password"
  /\ showPassword' = ~showPassword
  /\ UNCHANGED <<yamlConfig, rendered, formValues, formErrors, submitted,
                 filePreviews>>
  /\ UNCHANGED apiVars

\* a submit that hands the form values to onFormComplete without looking at
\* the errors of the resolver
Submit_Unvalidated ==
  /\ rendered.kind = "form"
  /\ LET r == buildZodSchema(rendered.controls, formValues) IN
     /\ formErrors' = r.errors
     /\ submitted' = [st |-> "completed", calls |-> << r.data >>]
  /\ UNCHANGED <<yamlConfig, rendered, formValues, filePreviews, showPassword>>
  /\ UNCHANGED apiVars

\* handleSubmit(onSubmit): the resolver validates the form values; without
\* errors onSubmit hands the parsed data to onFormComplete, else the errors
\* are recorded and nothing is called
Submit ==
  /\ rendered.kind = "form"
  /\ LET r == buildZodSchema(rendered.controls, formValues) IN
     /\ formErrors' = r.errors
     /\ submitted' = IF DOMAIN r.errors = {}
                     THEN [st |-> "completed", calls |-> << r.data >>]
                     ELSE [st |-> "blocked", calls |-> << >>]
  /\ UNCHANGED <<yamlConfig, rendered, formValues, filePreviews, showPassword>>
  /\ UNCHANGED apiVars

FormNext ==
  \/ \E i \in 1..Len(rendered.controls) :
       \E s \in WidgetValues(rendered.controls[i]) : Change(i, s)
  \/ \E i \in 1..Len(rendered.controls) :
       \E k \in 1..Len(rendered.controls[i].selectOptions) : Tick(i, k)
  \/ \E i \in 1..Len(rendered.controls), side \in {"from", "to"}, s \in DateValues :
       ChangeRange(i, side, s)
  \/ \E i \in 1..Len(rendered.controls), files \in FileSelections :
       SelectFiles(i, files)
  \/ \E i \in 1..Len(rendered.controls), index \in -1..1 :
       handleRemoveFile(i, index)
  \/ \E i \in 1..Len(rendered.controls) : TogglePassword(i)
  \/ Submit

FormSpec == FormInit /\ [][FormNext]_vars

(***************************************************************************)
(* Vocabulary of the properties of the form.                               *)
(***************************************************************************)
\* the controls of the rendered form
FormControlSet == {rendered.controls[i] : i \in 1..Len(rendered.controls)}

\* the paths of a control that carry an error
ErrorPaths(c) == PathsOf(c.name) \cap DOMAIN formErrors

\* the validator of a control passes on its current value
Passes(c) == FieldIssues(c, formValues[c.name]) = << >>

\* a submit attempt has been made on the current values
Attempted == submitted.st # "none"

(***************************************************************************)
(* C11 as stated: on a submit attempt, if every validator passes,          *)
(* onFormComplete is invoked exactly once with an object holding the       *)
(* current value of every declared control under the control's name; if    *)
(* any validator fails it is not invoked and every failing control has an  *)
(* error recorded.                                                         *)
(***************************************************************************)
C11_SubmitEveryControl ==
  Attempted =>
    IF \A c \in FormControlSet : Passes(c)
    THEN /\ submitted.st = "completed"
         /\ Len(submitted.calls) = 1
         /\ \A c \in FormControlSet :
              /\ c.name \in DOMAIN submitted.calls[1]
              /\ submitted.calls[1][c.name] = formValues[c.name]
    ELSE /\ submitted.st = "blocked"
         /\ submitted.calls = << >>
         /\ \A c \in FormControlSet : ~Passes(c) => ErrorPaths(c) # {}

(***************************************************************************)
(* C11, amended: on a submit attempt, if every validator passes,           *)
(* onFormComplete is invoked exactly once with an object whose keys are    *)
(* exactly the names of the declared controls that are not buttons, each   *)
(* holding the control's current value; if any validator fails it is not   *)
(* invoked and every failing control has an error recorded.                *)
(***************************************************************************)
C11_SubmitValueControls ==
  Attempted =>
    IF \A c \in FormControlSet : Passes(c)
    THEN /\ submitted.st = "completed"
         /\ Len(submitted.calls) = 1
         /\ DOMAIN submitted.calls[1] =
              {c.name : c \in {d \in FormControlSet : d.htmlControl # "button"}}
         /\ \A name \in DOMAIN submitted.calls[1] :
              submitted.calls[1][name] = formValues[name]
    ELSE /\ submitted.st = "blocked"
         /\ submitted.calls = << >>
         /\ \A c \in FormControlSet : ~Passes(c) => ErrorPaths(c) # {}

\* a form of a dateRange, a date input and a button was completed after edits
C11_Witness ==
  /\ yamlConfig = "trip"
  /\ submitted.st = "completed"
  /\ formValues["stay"] = Range("2024-01-01", "2024-01-10")
  /\ formValues["dob"] = Str("2024-01-10")

\* the widgets whose value is one string
StringWidgets == {"textarea", "select", "radio", "input"}

\* the value of a dateRange control has both dates, neither empty
BothDates(c) ==
  /\ Prop(formValues[c.name], "from").t = "string"
  /\ Prop(formValues[c.name], "to").t = "string"
  /\ Prop(formValues[c.name], "from").s # ""
  /\ Prop(formValues[c.name], "to").s # ""

(***************************************************************************)
(* C12: for every string-valued control that declares required, a submit   *)
(* attempt with the control empty is blocked, onFormComplete is not        *)
(* invoked, and the error reported for the control is the configured       *)
(* errorMessages.required, or "This field is required." when none is       *)
(* configured.                                                             *)
(***************************************************************************)
C12_RequiredMessage ==
  \A c \in FormControlSet :
    (/\ Attempted
     /\ Widget(c) \in StringWidgets
     /\ c.validations.required
     /\ formValues[c.name] = Str(""))
    => /\ submitted.st = "blocked"
       /\ submitted.calls = << >>
       /\ c.name \in DOMAIN formErrors
       /\ formErrors[c.name] =
            MsgOr(c.validations.errorMessages.required, "This field is required.")

(***************************************************************************)
(* C13: for every dateRange control whose from and to are both non-empty   *)
(* date strings: when to is lexicographically smaller than from the        *)
(* validator raises one issue, on the path "to", with errorMessages.range  *)
(* or "End date must be after start date", and a submit attempt is blocked *)
(* with that message recorded; when from <= to the validator passes and no *)
(* error is recorded for the control.                                      *)
(***************************************************************************)
C13_RangeOrder ==
  \A c \in FormControlSet :
    (c.htmlControl = "dateRange" /\ BothDates(c)) =>
      LET from == Prop(formValues[c.name], "from").s
          to == Prop(formValues[c.name], "to").s
          message == MsgOr(c.validations.errorMessages.range,
                           "End date must be after start date")
      IN
      IF StrRank(to) < StrRank(from)
      THEN /\ RangeField(c, formValues[c.name]) = << Issue(c.name \o ".to", message) >>
           /\ Attempted =>
                /\ submitted.st = "blocked"
                /\ ErrorPaths(c) = {c.name \o ".to"}
                /\ formErrors[c.name \o ".to"] = message
      ELSE /\ RangeField(c, formValues[c.name]) = << >>
           /\ Attempted => ErrorPaths(c) = {}

\* the range of 10 January to 1 January was submitted and blocked
C13_Witness ==
  /\ yamlConfig = "trip"
  /\ formValues["stay"] = Range("2024-01-10", "2024-01-01")
  /\ submitted.st = "blocked"
  /\ "stay.to" \in DOMAIN formErrors

(***************************************************************************)
(* C14: for a dateRange control that does not declare required, a value    *)
(* with from empty, to empty, or both empty passes validation and does not *)
(* block a submit attempt.                                                 *)
(***************************************************************************)
C14_EmptyRangePasses ==
  \A c \in FormControlSet :
    (/\ c.htmlControl = "dateRange"
     /\ ~c.validations.required
     /\ formValues[c.name].t = "object"
     /\ ~BothDates(c))
    => /\ Passes(c)
       /\ Attempted => ErrorPaths(c) = {}

(***************************************************************************)
(* C15: for every control with a string value, the rule set built by       *)
(* getValidationRules accepts the value if and only if the validator built *)
(* by buildZodSchema accepts it.                                           *)
(***************************************************************************)
C15_RulesAgree ==
  \A c \in FormControlSet :
    (Widget(c) \in StringWidgets /\ formValues[c.name].t = "string") =>
      (RuleErrors(getValidationRules(c), formValues[c.name].s) = << >>
         <=> StringField(c, formValues[c.name].s) = << >>)

(***************************************************************************)
(* C16: a control whose validation block declares no rule, left at its     *)
(* initial value, passes validation and has no error after a submit        *)
(* attempt, for every widget kind.                                         *)
(***************************************************************************)
C16_NoRuleNoError ==
  \A c \in FormControlSet :
    (/\ c.htmlControl # "button"
     /\ c.validations = NoValidations
     /\ formValues[c.name] = RegisteredValues(rendered.controls)[c.name])
    => /\ Passes(c)
       /\ Attempted => ErrorPaths(c) = {}

\* the files a file control holds: none for an empty value
Selection(value) ==
  CASE value.t = "array" -> value.items
    [] value.t = "file" -> << value >>
    [] OTHER -> << >>

(***************************************************************************)
(* C17: for every file control the validator accepts the selection if and  *)
(* only if the selection is non-empty when required is declared and the    *)
(* MIME type of every selected file is in allowedFormats when that list is *)
(* declared; a non-required empty selection is accepted.                   *)
(***************************************************************************)
C17_FileRules ==
  \A c \in FormControlSet :
    c.htmlControl = "file" =>
      LET files == Selection(formValues[c.name]) IN
      Passes(c) <=>
        /\ c.validations.required => Len(files) > 0
        /\ c.validations.hasAllowedFormats =>
             \A i \in 1..Len(files) : FormatAllowed(c.validations, files[i])

(***************************************************************************)
(* C18: for every YAML text FormBuilder renders a form or the message      *)
(* "Error parsing YAML: ..."; it never throws into the host.               *)
(***************************************************************************)
C18_NeverThrows == rendered.kind \in {"form", "parseError"}

(***************************************************************************)
(* C19: the options of every select, radio and checkbox control are        *)
(* rendered in the order in which the YAML declares the selectOptions      *)
(* keys.                                                                   *)
(***************************************************************************)
C19_OptionOrder ==
  \A c \in FormControlSet :
    Widget(c) \in {"select", "radio", "checkbox"} =>
      RenderedOptions(c) = c.selectOptions

(***************************************************************************)
(* C20: a control of an unknown widget kind renders nothing and never      *)
(* blocks a submit attempt: when every other control passes, the attempt   *)
(* completes and no error is recorded for the control.                     *)
(***************************************************************************)
C20_UnknownKindNoOp ==
  \A c \in FormControlSet :
    (/\ Widget(c) = "none"
     /\ Attempted
     /\ \A d \in FormControlSet \ {c} : Passes(d))
    => /\ submitted.st = "completed"
       /\ ErrorPaths(c) = {}

\* the messages of the declared rules that string s violates, in the order
\* required, min-length, max-length, email format, pattern, onlyInteger,
\* greaterThanOrEqualTo, lessThanOrEqualTo; each the override of the block
\* or the default of the rule
ViolatedRules(c, s) ==
  LET v == c.validations
      msgs == v.errorMessages
      n == NumberOf(s)
      rule(declared, violated, override, default) ==
        IF declared /\ violated THEN << MsgOr(override, default) >> ELSE << >>
  IN
  rule(v.required, s = "", msgs.required, "This field is required")
  \o rule(v.minLength > 0, Length(s) < v.minLength, msgs.minLength,
          "Minimum length is " \o ToString(v.minLength))
  \o rule(v.maxLength > 0, Length(s) > v.maxLength, msgs.maxLength,
          "Maximum length is " \o ToString(v.maxLength))
  \o rule(v.email, ~ZodEmailTest(s), msgs.email, "Invalid email address")
  \o rule(v.pattern # "" /\ ~RegExpThrows(v.pattern), ~RegExpTest(v.pattern, s),
          msgs.pattern, "Invalid format")
  \o rule(v.numericality /\ v.onlyInteger, n.nan, msgs.onlyInteger,
          "Must be an integer")
  \o rule(v.numericality /\ v.greaterThanOrEqualTo # 0,
          n.nan \/ n.n < v.greaterThanOrEqualTo, msgs.greaterThanOrEqualTo,
          "Must be >= " \o ToString(v.greaterThanOrEqualTo))
  \o rule(v.numericality /\ v.lessThanOrEqualTo # 0,
          n.nan \/ n.n > v.lessThanOrEqualTo, msgs.lessThanOrEqualTo,
          "Must be <= " \o ToString(v.lessThanOrEqualTo))

PreviewList(name) ==
  LET shown == PreviewState(name) IN
  CASE shown.t = "array" -> shown.items
    [] shown.t = "preview" -> << shown >>
    [] OTHER -> << >>

(***************************************************************************)
(* C28: after any sequence of file selections and removals the form value  *)
(* of a file control is a file, a list of files or empty, and the preview  *)
(* state of the control holds exactly one preview per file of the value,   *)
(* in the same order and with the same name, type and size; the url of a   *)
(* preview is non-empty only for a file whose MIME type starts with        *)
(* "image/".                                                               *)
(***************************************************************************)
C28_PreviewsMatchValue ==
  \A c \in FormControlSet :
    c.htmlControl = "file" =>
      LET value == formValues[c.name]
          files == Selection(value)
          previews == PreviewList(c.name)
      IN
      /\ value.t \in {"array", "file", "null"} \/ value = Str("")
      /\ Len(previews) = Len(files)
      /\ \A j \in 1..Len(previews) :
           /\ j <= Len(files)
           /\ previews[j].name = files[j].name
           /\ previews[j].type = files[j].type
           /\ previews[j].size = files[j].size
           /\ previews[j].url # "" => StartsWithImage(files[j].type)

(***************************************************************************)
(* C29: each password widget has its own visibility toggle: a toggle       *)
(* changes the shown/hidden state of one password widget only, and leaves  *)
(* every form value and every validation error unchanged.                  *)
(***************************************************************************)
C29_OwnToggle ==
  [][ LET passwords == {c \in FormControlSet :
                          Widget(c) = "input" /\ c.inputType = "password"}
          toggled == {c \in passwords :
                        PasswordInputType(c, showPassword')
                          # PasswordInputType(c, showPassword)}
      IN
      showPassword' # showPassword =>
        /\ Cardinality(toggled) = 1
        /\ formValues' = formValues
        /\ formErrors' = formErrors
    ]_vars

====
